---- MODULE Spec2Model ----
(***************************************************************************)
(* State-machine model of src/bot.py (stock-news-bot): the driver loop     *)
(* main_loop with its scan pass, Event Store, ledgers, mode scheduler,     *)
(* digest selection, delivery outcome and the three persisted records.     *)
(*                                                                         *)
(* Time is the local wall clock in whole seconds since a Monday 00:00:00.  *)
(* External collaborators (feeds, ticker lookup, classifier, Telegram) are *)
(* nondeterministic inputs drawn from small sets.                          *)
(***************************************************************************)
EXTENDS Integers, Sequences, FiniteSets, Bags, TLC

VARIABLES
    now,                        \* wall clock, datetime.now()
    pc,                         \* position of main_loop
    current_mode,               \* bot.py:137
    sleep_events_collected,     \* bot.py:139
    last_wake_up_time,          \* bot.py:140
    news_events,                \* bot.py:130  deque(maxlen=MAX_EVENTS_TO_STORE)
    processed_articles,         \* bot.py:131
    sent_headlines_sent,        \* bot.py:133
    valid_tickers_cache,        \* bot.py:134
    current_time,               \* main_loop local, bot.py:922
    last_report_time,           \* main_loop local, bot.py:909
    last_wakeup_triggered_date, \* main_loop local, bot.py:910
    new_events,                 \* scan_news_feeds local, bot.py:695
    scanned,                    \* feed entries read so far in this scan pass
    disk_events,                \* events.json
    disk_state,                 \* state.json
    disk_sent,                  \* sent_headlines.json
    outbox,                     \* message handed to send_telegram_message in the step just taken
    delivered,                  \* headlines of all digests Telegram has accepted so far
    ingested,                   \* article keys appended to new_events in this process run, with multiplicity
    failed,                     \* events of digests whose delivery failed in the current driver cycle
    owed,                       \* events whose delivery failed in the previous cycle and was not attempted since
    last_scan,                  \* what the scan pass did with the feed entry it read in the step just taken
    env,                        \* the surroundings of this exploration: what the feeds serve, how long a fetch takes, when it ends
    wake_log,                   \* every call of send_wake_up_report so far: when, by which trigger, with what outcome
    overnight,                  \* events appended to the store while current_mode was SLEEP
    periodic_sent,              \* headlines of all periodic reports Telegram has accepted so far
    tg_call,                    \* one call of send_telegram_message in progress, bot.py:663-689
    gpt_call,                   \* one call of analyze_news_with_chatgpt in progress, bot.py:406-453, 527-570
    alert_bot                   \* the process of src/main.py: its module globals and what it has sent

vars == <<now, pc, current_mode, sleep_events_collected, last_wake_up_time,
          news_events, processed_articles, sent_headlines_sent, valid_tickers_cache,
          current_time, last_report_time, last_wakeup_triggered_date,
          new_events, scanned, disk_events, disk_state, disk_sent,
          outbox, delivered, ingested, failed, owed, last_scan, env, wake_log,
          overnight, periodic_sent, tg_call, gpt_call, alert_bot>>

(***************************************************************************)
(* Configuration, bot.py:48-59                                             *)
(***************************************************************************)
SCAN_INTERVAL_SECONDS == 60
REPORT_INTERVAL_SECONDS == 300
EVENT_RETENTION_MINUTES == 5
MAX_EVENTS_TO_STORE == 100
SLEEP_MODE_ENABLED == TRUE
SLEEP_START_HOUR == 21
SLEEP_END_HOUR == 7
SLEEP_WEEKENDS == TRUE
TOP_K == 5
WAKE_LOOKBACK_HOURS == 12
BRIEF_HOUR == 7
EVENT_DELAY_SECONDS == 2

None == -1

\* the Rate gate's minimum spacing of two alerts for one ticker, in seconds
cooldownDuration == 1

(***************************************************************************)
(* datetime fields of a clock value                                        *)
(***************************************************************************)
HourOf(t) == (t \div 3600) % 24
MinuteOf(t) == (t \div 60) % 60
WeekdayOf(t) == (t \div 86400) % 7
DateOf(t) == t \div 86400

(***************************************************************************)
(* Bounds of the model                                                     *)
(***************************************************************************)
MaxRun == 3             \* minutes of wall clock explored after the start instant
MaxEntriesPerScan == 2  \* feed entries read in one scan pass

BootTime == 6 * 3600 + 55 * 60          \* Monday 06:55:00: main_loop starts
StartTime == 6 * 3600 + 59 * 60         \* Monday 06:59:00: first driver cycle explored
Horizon == StartTime + MaxRun * 60

\* what an exploration is given: the entries the feeds serve, the seconds a
\* fetch with its classification may take, the instant it starts at, the
\* instant the clock is followed to, and how many more times the operator
\* presses Ctrl+C
Surroundings(entries, delays, start, horizon, interrupts) ==
    [entries |-> entries, delays |-> delays, start |-> start, horizon |-> horizon,
     interrupts |-> interrupts]

(***************************************************************************)
(* Text.  A title is a sequence of tokens; a token has a kind and the      *)
(* letters it carries:                                                     *)
(*   "dollar"  $SYM    "paren"  (SYM)    "bare"  SYM   (SYM: 1-5 capitals) *)
(*   "word"    any other run of non-blank characters                       *)
(*   "sp"      a blank          "nl"  a newline                            *)
(***************************************************************************)
Tok(k, s) == [k |-> k, s |-> s]
SP == Tok("sp", "")
NL == Tok("nl", "")

IsBlank(t) == t.k = "sp"

RECURSIVE LStrip(_)
LStrip(s) == IF s # <<>> /\ IsBlank(Head(s)) THEN LStrip(Tail(s)) ELSE s

RECURSIVE RStrip(_)
RStrip(s) == IF s # <<>> /\ IsBlank(s[Len(s)]) THEN RStrip(SubSeq(s, 1, Len(s) - 1)) ELSE s

\* bot.py:219-221  text.replace("\n", " ").strip()
clean_text(text) ==
    LET replaced == [i \in 1..Len(text) |-> IF text[i].k = "nl" THEN SP ELSE text[i]]
    IN  RStrip(LStrip(replaced))

\* bot.py:391-395
blacklist == {"USD", "FOMC", "ETF", "IPO", "AI", "GDP", "CEO", "EV", "SEC", "FDA",
              "US", "UK", "EU", "NYC", "LA", "SF", "DC", "PR", "CFO", "CTO",
              "COVID", "NASDAQ", "NYSE", "DOW", "SPY", "QQQ", "VIX", "NEWS"}

\* the least reliable pattern tried first
BareFirst == << {"dollar", "paren", "bare"}, {"dollar"}, {"paren"} >>

\* bot.py:384-388: the token kinds each pattern matches, in list order.  The
\* bare pattern \b([A-Z]{1,5})\b also matches the letters of $SYM and (SYM).
patterns == << {"dollar"}, {"paren"}, {"dollar", "paren", "bare"} >>

\* re.findall(pattern, headline): the matches left to right
findall(pattern, headline) ==
    LET hit(t) == t.k \in pattern
        toks == SelectSeq(headline, hit)
    IN  [i \in 1..Len(toks) |-> toks[i].s]

NoTicker == ""

RECURSIVE FirstAccepted(_)
FirstAccepted(matches) ==
    IF matches = <<>> THEN NoTicker
    ELSE IF Head(matches) \notin blacklist THEN Head(matches)
    ELSE FirstAccepted(Tail(matches))

RECURSIVE ExtractFrom(_, _)
ExtractFrom(p, headline) ==
    IF p > Len(patterns) THEN NoTicker
    ELSE LET t == FirstAccepted(findall(patterns[p], headline))
         IN  IF t # NoTicker THEN t ELSE ExtractFrom(p + 1, headline)

\* bot.py:381-404
extract_ticker_from_headline(headline) == ExtractFrom(1, headline)

(***************************************************************************)
(* Feed entries the feeds may serve (title, link), bot.py:702-704          *)
(***************************************************************************)
TitleAcme  == << Tok("word", "Acme"), SP, Tok("word", "beats"), SP, Tok("word", "on"), SP, Tok("dollar", "ACME") >>
TitleAcmeN == << SP >> \o TitleAcme \o << NL >>
TitleBeta  == << Tok("bare", "FDA"), SP, Tok("word", "clears"), SP, Tok("paren", "BETA") >>
TitleFed   == << Tok("bare", "FOMC"), SP, Tok("word", "holds"), SP, Tok("word", "rates") >>

NoLink == ""

Entry(t, l) == [title |-> t, link |-> l]

Entries == { Entry(TitleAcme, "l1"), Entry(TitleAcmeN, "l1"), Entry(TitleAcme, "l2"),
             Entry(TitleFed, "l1"), Entry(TitleBeta, NoLink) }


(***************************************************************************)
(* NewsEvent, bot.py:87-98.  confidence_score is in hundredths.            *)
(***************************************************************************)
NewsEvent(headline, ticker, analysis, timestamp, link) ==
    [headline |-> headline, ticker |-> ticker,
     sentiment |-> analysis.sentiment, confidence_score |-> analysis.confidence_score,
     timestamp |-> timestamp, source_url |-> link]

\* results analyze_news_with_chatgpt may return, bot.py:555-570
Analysis(s, c) == [sentiment |-> s, confidence_score |-> c]
Analyses == { Analysis("BULLISH", 80), Analysis("NEUTRAL", 0) }

\* seconds an article fetch and its classification may take, bot.py:725-732
FetchDelays == {0}

Range(s) == { s[i] : i \in 1..Len(s) }
Min(a, b) == IF a <= b THEN a ELSE b
Take(s, n) == SubSeq(s, 1, Min(n, Len(s)))

(***************************************************************************)
(* Mode predicate, bot.py:223-247                                          *)
(***************************************************************************)
\* the nightly window taken as a same-day window, without the wrap past midnight
SameDayWindow(t) ==
    IF ~SLEEP_MODE_ENABLED THEN FALSE
    ELSE IF SLEEP_WEEKENDS /\ WeekdayOf(t) >= 5 THEN TRUE
    ELSE IF WeekdayOf(t) < 5
         THEN SLEEP_START_HOUR <= HourOf(t) /\ HourOf(t) < SLEEP_END_HOUR
         ELSE FALSE

is_sleep_time(t) ==
    IF ~SLEEP_MODE_ENABLED THEN FALSE
    ELSE IF SLEEP_WEEKENDS /\ WeekdayOf(t) >= 5 THEN TRUE
    ELSE IF WeekdayOf(t) < 5
         THEN IF SLEEP_START_HOUR <= SLEEP_END_HOUR
              THEN SLEEP_START_HOUR <= HourOf(t) /\ HourOf(t) < SLEEP_END_HOUR
              ELSE HourOf(t) >= SLEEP_START_HOUR \/ HourOf(t) < SLEEP_END_HOUR
         ELSE FALSE

\* the end hour of the nightly window counted as part of it
EndHourInclusive(t) ==
    IF is_sleep_time(t) \/ (WeekdayOf(t) < 5 /\ HourOf(t) = SLEEP_END_HOUR) THEN "SLEEP" ELSE "NORMAL"

get_bot_mode(t) == IF is_sleep_time(t) THEN "SLEEP" ELSE "NORMAL"

(***************************************************************************)
(* Event Store, bot.py:130: deque(maxlen=MAX_EVENTS_TO_STORE).append       *)
(***************************************************************************)
\* the maximum length taken one too large
OneTooMany(dq, ev) ==
    IF Len(dq) >= MAX_EVENTS_TO_STORE + 1 THEN Append(Tail(dq), ev) ELSE Append(dq, ev)

DequeAppend(dq, ev) ==
    IF Len(dq) >= MAX_EVENTS_TO_STORE THEN Append(Tail(dq), ev) ELSE Append(dq, ev)

\* bot.py:936-937, bot.py:200-201: the events evs[lo..hi] appended one by
\* one in their order, the first half of them and then the second (the
\* store after the first half is computed, its length taken, before the
\* second half is appended to it)
RECURSIVE AppendRange(_, _, _, _)
AppendRange(dq, evs, lo, hi) ==
    IF lo > hi THEN dq
    ELSE IF lo = hi THEN DequeAppend(dq, evs[lo])
    ELSE LET mid == (lo + hi) \div 2
             first == AppendRange(dq, evs, lo, mid)
         IN  IF Len(first) >= 0 THEN AppendRange(first, evs, mid + 1, hi) ELSE first

\* the new events put in front of the store
ExtendInFront(dq, evs) == evs \o dq

DequeExtend(dq, evs) == AppendRange(dq, evs, 1, Len(evs))

\* bot.py:770-772: popleft while the oldest event is older than the cutoff
RECURSIVE PopOlder(_, _)
PopOlder(dq, cutoff_time) ==
    IF dq # <<>> /\ Head(dq).timestamp < cutoff_time THEN PopOlder(Tail(dq), cutoff_time) ELSE dq

\* the retention period taken in seconds
RetentionInSeconds(dq, t) ==
    IF is_sleep_time(t) \/ HourOf(t) < 7 THEN dq
    ELSE PopOlder(dq, t - EVENT_RETENTION_MINUTES)

\* bot.py:759-777
cleanup_old_events(dq, t) ==
    IF is_sleep_time(t) \/ HourOf(t) < 7 THEN dq
    ELSE PopOlder(dq, t - EVENT_RETENTION_MINUTES * 60)

(***************************************************************************)
(* Ticker validation, bot.py:457-482.  ans is what the external lookup     *)
(* answers for the symbols not yet cached (an exception caches FALSE).     *)
(***************************************************************************)
Lookups(tickers) == (tickers \ {NoTicker}) \ DOMAIN valid_tickers_cache

\* an invalid symbol not remembered
CacheValidOnly(ans) ==
    [t \in DOMAIN valid_tickers_cache \cup { u \in DOMAIN ans : ans[u] } |->
        IF t \in DOMAIN valid_tickers_cache THEN valid_tickers_cache[t] ELSE ans[t]]

CacheAfter(ans) ==
    [t \in DOMAIN valid_tickers_cache \cup DOMAIN ans |->
        IF t \in DOMAIN valid_tickers_cache THEN valid_tickers_cache[t] ELSE ans[t]]

validate_ticker(ticker, ans) ==
    IF ticker = NoTicker THEN FALSE
    ELSE IF ticker \in DOMAIN valid_tickers_cache THEN valid_tickers_cache[ticker]
    ELSE ans[ticker]

(***************************************************************************)
(* sorted(events, key=confidence_score, reverse=True): stable, so events   *)
(* of equal score keep their Event Store order.                            *)
(***************************************************************************)
RECURSIVE InsertByConfidence(_, _)
InsertByConfidence(sorted, e) ==
    IF sorted = <<>> THEN <<e>>
    ELSE IF Head(sorted).confidence_score >= e.confidence_score
         THEN <<Head(sorted)>> \o InsertByConfidence(Tail(sorted), e)
         ELSE <<e>> \o sorted

RECURSIVE SortedByConfidence(_)
SortedByConfidence(events) ==
    IF events = <<>> THEN <<>>
    ELSE InsertByConfidence(SortedByConfidence(SubSeq(events, 1, Len(events) - 1)),
                            events[Len(events)])

\* the sentiment filter left out
AnySentiment(e) == TRUE

\* bot.py:852, bot.py:813
IsDirectional(e) == e.sentiment \in {"BULLISH", "BEARISH"}

\* bot.py:850-855
TradingCandidates == SelectSeq(news_events, IsDirectional)

Eligible(ans) ==
    LET ok(e) == /\ IsDirectional(e)
                 /\ validate_ticker(e.ticker, ans)
                 /\ e.headline \notin sent_headlines_sent
    IN  SelectSeq(news_events, ok)

\* the first five in store order, the sort left out
TopUnsorted(eligible) == Take(eligible, TOP_K)

\* bot.py:860
TopTrading(eligible) == Take(SortedByConfidence(eligible), TOP_K)

\* the default lookback taken whatever the last-wake-up instant is
SinceDefault == now - WAKE_LOOKBACK_HOURS * 3600

\* bot.py:810
SinceTime == IF last_wake_up_time # None THEN last_wake_up_time
             ELSE now - WAKE_LOOKBACK_HOURS * 3600

\* bot.py:813
WakeCandidates ==
    LET c(e) == e.timestamp >= SinceTime /\ IsDirectional(e)
    IN  SelectSeq(news_events, c)

Recent(ans) ==
    LET ok(e) == /\ e.timestamp >= SinceTime
                 /\ IsDirectional(e)
                 /\ validate_ticker(e.ticker, ans)
    IN  SelectSeq(news_events, ok)

\* bot.py:822
TopWakeUp(recent) == Take(SortedByConfidence(recent), TOP_K)

(***************************************************************************)
(* Persisted records.  A file exists or not; one that exists is readable   *)
(* (json.load returns what the last complete save wrote) or is not (it is  *)
(* empty or cut short, and json.load raises).                              *)
(***************************************************************************)
NoEventsFile == [exists |-> FALSE, readable |-> FALSE, data |-> <<>>]
NoStateFile == [exists |-> FALSE, readable |-> FALSE, last_wake_up_time |-> None]
NoSentFile == [exists |-> FALSE, readable |-> FALSE, items |-> {}]

\* bot.py:166, 187, 211: open(path, 'w') has emptied the file and json.dump
\* has not finished, or not started, writing the new content
Torn(absent) == [absent EXCEPT !.exists = TRUE]

\* bot.py:208-215
save_events_to_disk(dq) == [exists |-> TRUE, readable |-> TRUE, data |-> dq]
\* bot.py:160-170
save_state(t) == [exists |-> TRUE, readable |-> TRUE, last_wake_up_time |-> t]
\* bot.py:184-191
save_sent_headlines(items) == [exists |-> TRUE, readable |-> TRUE, items |-> items]

(***************************************************************************)
(* Delivery.  ok is the answer of send_telegram_message, bot.py:663-689.   *)
(***************************************************************************)
NoScan == [result |-> "none", key |-> <<>>]

NoMessage == [kind |-> "none", events |-> <<>>, ok |-> FALSE, ledger |-> {}, prior |-> {},
              at |-> None, marker |-> None, wake |-> None]

\* the instant of the last wake-up report the Delivery Gateway accepted
LastWakeUpDelivered ==
    LET oks == { w.at : w \in { x \in wake_log : x.ok } }
    IN  IF oks = {} THEN None ELSE CHOOSE m \in oks : \A o \in oks : o <= m

HeadlinesOf(events) == { e.headline : e \in Range(events) }

\* a digest as it is handed to send_telegram_message, with what was known
\* at that moment
Message(kind, events, ok) ==
    [kind |-> kind, events |-> events, ok |-> ok,
     ledger |-> sent_headlines_sent, prior |-> delivered,
     at |-> now, marker |-> last_wake_up_time, wake |-> LastWakeUpDelivered]

Handed(kind, events, ok) ==
    /\ outbox' = Message(kind, events, ok)
    /\ delivered' = IF ok THEN delivered \cup HeadlinesOf(events) ELSE delivered
    /\ periodic_sent' = IF ok /\ kind = "trading" THEN periodic_sent \cup HeadlinesOf(events)
                   ELSE periodic_sent
    /\ failed' = IF ok THEN failed \ Range(events) ELSE failed \cup Range(events)
    /\ owed' = owed \ Range(events)

NothingHanded ==
    /\ outbox' = NoMessage
    /\ UNCHANGED <<delivered, periodic_sent, failed, owed>>

\* bot.py:814
NoRecent(recent) == recent = <<>>

\* the empty-digest check left out
NeverEmpty(eligible) == FALSE

\* bot.py:856
NoEligible(eligible) == eligible = <<>>

\* the headlines committed whatever the delivery answered
LedgerAfterAlways(top_events, ok) == sent_headlines_sent \cup HeadlinesOf(top_events)

\* bot.py:876-879
LedgerAfter(top_events, ok) ==
    IF ok THEN sent_headlines_sent \cup HeadlinesOf(top_events) ELSE sent_headlines_sent

\* bot.py:801-841
send_wake_up_report(ok, ans) ==
    IF news_events = <<>>
    THEN /\ NothingHanded
         /\ UNCHANGED <<last_wake_up_time, disk_state, valid_tickers_cache>>
    ELSE /\ valid_tickers_cache' = CacheAfter(ans)
         /\ IF NoRecent(Recent(ans))
            THEN /\ last_wake_up_time' = now
                 /\ disk_state' = save_state(now)
                 /\ NothingHanded
            ELSE /\ Handed("wakeup", TopWakeUp(Recent(ans)), ok)
                 /\ IF ok
                    THEN /\ last_wake_up_time' = now
                         /\ disk_state' = save_state(now)
                    ELSE UNCHANGED <<last_wake_up_time, disk_state>>

WakeLookups ==
    IF news_events = <<>> THEN {}
    ELSE Lookups({ e.ticker : e \in Range(WakeCandidates) })

\* bot.py:843-882
send_trading_report(ok, ans) ==
    IF news_events = <<>>
    THEN /\ NothingHanded
         /\ UNCHANGED <<sent_headlines_sent, disk_sent, valid_tickers_cache>>
    ELSE /\ valid_tickers_cache' = CacheAfter(ans)
         /\ IF NoEligible(Eligible(ans))
            THEN /\ NothingHanded
                 /\ UNCHANGED <<sent_headlines_sent, disk_sent>>
            ELSE LET top_events == TopTrading(Eligible(ans))
                 IN  /\ Handed("trading", top_events, ok)
                     /\ sent_headlines_sent' = LedgerAfter(top_events, ok)
                     /\ disk_sent' = IF ok THEN save_sent_headlines(LedgerAfter(top_events, ok))
                                    ELSE disk_sent

TradingLookups ==
    IF news_events = <<>> THEN {}
    ELSE Lookups({ e.ticker : e \in Range(TradingCandidates) })

\* one call of send_wake_up_report in the step being taken: the driver cycle
\* (its start instant), what triggered the call, whether a digest was handed
\* to the Delivery Gateway and whether it was accepted
WakeUpCalled(tick, trigger) ==
    wake_log' = wake_log \cup { [at |-> now, tick |-> tick, trigger |-> trigger,
                                  handed |-> outbox'.kind = "wakeup",
                                  ok |-> outbox'.kind = "wakeup" /\ outbox'.ok] }

\* the counter left as it is by a mode switch
CounterKept(old_mode, new_mode) == sleep_events_collected

\* bot.py:267, bot.py:272: the sleep-event counter after a mode switch
CounterAfterSwitch(old_mode, new_mode) ==
    IF old_mode = "SLEEP" /\ new_mode = "NORMAL" THEN 0
    ELSE IF old_mode = "NORMAL" /\ new_mode = "SLEEP" THEN 0
    ELSE sleep_events_collected

\* bot.py:249-278
check_mode_switch(ok, ans) ==
    LET new_mode == get_bot_mode(now)
    IN  IF new_mode # current_mode
        THEN /\ current_mode' = new_mode
             /\ sleep_events_collected' = CounterAfterSwitch(current_mode, new_mode)
             /\ IF current_mode = "SLEEP" /\ new_mode = "NORMAL"
                THEN send_wake_up_report(ok, ans)
                ELSE /\ NothingHanded
                     /\ UNCHANGED <<last_wake_up_time, disk_state, valid_tickers_cache>>
        ELSE /\ NothingHanded
             /\ UNCHANGED <<current_mode, sleep_events_collected,
                            last_wake_up_time, disk_state, valid_tickers_cache>>

SwitchLookups ==
    IF current_mode = "SLEEP" /\ get_bot_mode(now) = "NORMAL" THEN WakeLookups ELSE {}

(***************************************************************************)
(* Classifier answers, bot.py:406-453 and bot.py:527-570                   *)
(***************************************************************************)
\* a value of the JSON object the classifier answered with, by its type t:
\* a string "str" s, a number "num" n (in hundredths), "null", a "list" of
\* n elements, or "absent" when the object has no such key
JVal(t, s, n) == [t |-> t, s |-> s, n |-> n]
Absent == JVal("absent", "", 0)

\* the text of an answer: nothing but blanks, prose without a brace, an
\* opening brace never closed, braces around something that is not JSON, or
\* a JSON object with its three fields
Text(shape, sentiment, confidence_score, importance_reasons) ==
    [shape |-> shape, sentiment |-> sentiment, confidence_score |-> confidence_score,
     importance_reasons |-> importance_reasons]

\* bot.py:453: call_chatgpt_api returns None
NoResponse == Text("none", Absent, Absent, Absent)

NoAnalysis == [sentiment |-> "", confidence_score |-> 0, importance_reasons |-> <<>>]

\* the events of a store that were collected inside the sleep window
Overnight(store) == { e \in Range(store) : is_sleep_time(e.timestamp) }

\* no call of send_telegram_message, none of analyze_news_with_chatgpt, is
\* followed attempt by attempt.  posts: the answer to each post made so far;
\* slept: the seconds of time.sleep after each of them (0: none)
NoTelegramCall == [state |-> "idle", config_ok |-> TRUE, answers |-> <<>>, attempt |-> 0,
                   posts |-> <<>>, slept |-> <<>>, result |-> FALSE]

NoClassifierCall == [state |-> "idle", replies |-> <<>>, attempt |-> 0, posts |-> <<>>,
                     slept |-> <<>>, response |-> NoResponse, result |-> NoAnalysis]

\* src/main.py is not running.  sent_global: main.py:26; market_items,
\* biotech_items: what the two calls of scan_feed_list in the last batch
\* returned; sent: every (title, link, chat) handed to send_telegram so far
NoAlertBot == [state |-> "off", batches |-> 0, sent_global |-> {}, market_items |-> <<>>,
               biotech_items |-> <<>>, sent |-> <<>>]

NoCalls ==
    /\ tg_call = NoTelegramCall
    /\ gpt_call = NoClassifierCall
    /\ alert_bot = NoAlertBot

(***************************************************************************)
(* send_telegram_message, bot.py:663-689, followed attempt by attempt.     *)
(* An answer of the transport is the HTTP status of the response, or       *)
(* TimedOut when session.post raised (timeout=15, connection error).       *)
(***************************************************************************)
TELEGRAM_RETRIES == 3
TimedOut == 0

TelegramAnswers == {200, 400, 401, 403, 429, 500, TimedOut}

\* response.raise_for_status() does not raise: the transport accepted the post
Accepted(status) == status # TimedOut /\ status < 400

\* a successful post retried like a failed one
SuccessRetried(status, attempt) ==
    IF status \in {400, 401} THEN "failure"
    ELSE IF attempt < TELEGRAM_RETRIES - 1 THEN "retry"
    ELSE IF Accepted(status) THEN "success"
    ELSE "failure"

\* bot.py:678-689: what one pass of the loop does with the answer to its post
PostOutcome(status, attempt) ==
    IF status \in {400, 401} THEN "failure"
    ELSE IF Accepted(status) THEN "success"
    ELSE IF attempt < TELEGRAM_RETRIES - 1 THEN "retry"
    ELSE "failure"

(***************************************************************************)
(* call_chatgpt_api, bot.py:406-453, and the parsing of its answer in      *)
(* analyze_news_with_chatgpt, bot.py:527-570.  A reply of the service is   *)
(* an HTTP status (or TimedOut) and, with status 200, the content of the   *)
(* first choice; shape "none" is a body without choices.                   *)
(***************************************************************************)
CHATGPT_RETRIES == 3

ClassifierReplies ==
    LET str(s) == JVal("str", s, 0)
        num(n) == JVal("num", "", n)
        null == JVal("null", "", 0)
        list == JVal("list", "", 2)
        empty == JVal("list", "", 0)
    IN  { [status |-> s, text |-> NoResponse] : s \in {429, 500, TimedOut, 200} }
        \cup { [status |-> 200, text |-> Text(shape, Absent, Absent, Absent)] :
                 shape \in {"empty", "prose", "open", "broken"} }
        \cup { [status |-> 200, text |-> Text("object", o[1], o[2], o[3])] :
                 o \in { <<str("BULLISH"), num(80), list>>,
                         <<str("BEARISH"), num(70), empty>>,
                         <<str("bearish"), str("0.9"), str("merger")>>,
                         <<str("MIXED"), num(150), list>>,
                         <<Absent, Absent, Absent>>,
                         <<str("BULLISH"), str("high"), list>>,
                         <<null, num(80), list>>,
                         <<num(1), num(80), list>>,
                         <<str("BULLISH"), null, list>>,
                         <<str("BULLISH"), list, list>> } }

\* bot.py:424-451: what one pass of the loop does with the reply to its post
ApiOutcome(reply) ==
    IF reply.status = 429 THEN "retry"
    ELSE IF reply.status = TimedOut THEN "retry"
    ELSE IF reply.status >= 400 THEN "break"
    ELSE IF reply.text.shape = "none" THEN "retry"
    ELSE "return"

\* bot.py:427-431, 448-451: the seconds one pass of the loop sleeps after
\* the reply to its post
ApiDelay(reply, attempt) ==
    IF reply.status = 429 THEN 2 ^ attempt
    ELSE IF reply.status = TimedOut /\ attempt < CHATGPT_RETRIES - 1 THEN 1
    ELSE 0

\* str.upper() on the sentiment words the service is seen to use
Upper(s) ==
    CASE s = "bullish" -> "BULLISH"
      [] s = "bearish" -> "BEARISH"
      [] s = "neutral" -> "NEUTRAL"
      [] s = "mixed" -> "MIXED"
      [] OTHER -> s

\* bot.py:529-534, 565-570: the two fallback results
Fallback(reason) ==
    [sentiment |-> "NEUTRAL", confidence_score |-> 0, importance_reasons |-> << reason >>]

\* bot.py:528-570 on the response of call_chatgpt_api; confidence in hundredths.
\* raised: an exception other than JSONDecodeError, ValueError, KeyError left the function
analyze_news_with_chatgpt(response) ==
    LET returned(result) == [raised |-> FALSE, result |-> result]
        s == response.sentiment
        c == response.confidence_score
        r == response.importance_reasons
        \* result.get('sentiment', 'NEUTRAL').upper(): AttributeError unless a string
        upper == IF s.t = "absent" THEN "NEUTRAL" ELSE Upper(s.s)
        sentiment == IF upper \in {"BULLISH", "BEARISH", "NEUTRAL"} THEN upper ELSE "NEUTRAL"
        \* float(...): TypeError on null or a list, ValueError on a word
        float == CASE c.t = "absent" -> 0
                   [] c.t = "num" -> c.n
                   [] c.t = "str" /\ c.s = "0.9" -> 90
                   [] OTHER -> -1
        confidence == IF float < 0 THEN 0 ELSE IF float > 100 THEN 100 ELSE float
        \* the list is taken as it is, anything else becomes [str(reasons)]
        reasons == CASE r.t = "absent" -> << "Unable to analyze" >>
                     [] r.t = "list" -> [i \in 1..r.n |-> "reason"]
                     [] OTHER -> << "str(reasons)" >>
    IN  IF response.shape \in {"none", "empty"} THEN returned(Fallback("Unable to analyze"))
        ELSE IF response.shape # "object" THEN returned(Fallback("Analysis failed"))
        ELSE IF s.t \notin {"absent", "str"} THEN [raised |-> TRUE, result |-> NoAnalysis]
        ELSE IF c.t \in {"null", "list"} THEN [raised |-> TRUE, result |-> NoAnalysis]
        ELSE IF c.t = "str" /\ c.s # "0.9" THEN returned(Fallback("Analysis failed"))
        ELSE returned([sentiment |-> sentiment, confidence_score |-> confidence,
                       importance_reasons |-> reasons])

(***************************************************************************)
(* Init: a fresh installation (no files) started at BootTime, whose feeds  *)
(* served nothing until StartTime: the module globals of bot.py:130-140    *)
(* after the start of main_loop (bot.py:909-918) and the quiet cycles      *)
(* before StartTime; the cycle of StartTime is about to begin.             *)
(***************************************************************************)
Init ==
    /\ now = StartTime
    /\ pc = "tick"
    /\ current_mode = get_bot_mode(BootTime)
    /\ sleep_events_collected = 0
    /\ last_wake_up_time = None
    /\ news_events = <<>>
    /\ processed_articles = {}
    /\ sent_headlines_sent = {}
    /\ valid_tickers_cache = [t \in {} |-> FALSE]
    /\ current_time = StartTime - SCAN_INTERVAL_SECONDS
    /\ last_report_time = BootTime
    /\ last_wakeup_triggered_date = None
    /\ new_events = <<>>
    /\ scanned = 0
    /\ disk_events = NoEventsFile
    /\ disk_state = NoStateFile
    /\ disk_sent = NoSentFile
    /\ outbox = NoMessage
    /\ delivered = {}
    /\ ingested = EmptyBag
    /\ failed = {}
    /\ owed = {}
    /\ last_scan = NoScan
    /\ env = Surroundings(Entries, FetchDelays, StartTime, Horizon, 0)
    /\ wake_log = {}
    /\ overnight = Overnight(news_events)
    /\ periodic_sent = delivered
    /\ NoCalls

\* bot.py:193-206
load_events_from_disk(dq) ==
    IF disk_events.exists /\ disk_events.readable
    THEN LET events_list == disk_events.data
             first == IF Len(events_list) > MAX_EVENTS_TO_STORE
                      THEN Len(events_list) - MAX_EVENTS_TO_STORE + 1 ELSE 1
         IN  DequeExtend(dq, SubSeq(events_list, first, Len(events_list)))
    ELSE dq

\* bot.py:144-158
load_state(t) ==
    IF disk_state.exists /\ disk_state.readable /\ disk_state.last_wake_up_time # None
    THEN disk_state.last_wake_up_time ELSE t

\* the sent headlines loaded only when the events were: the loads sharing one try block
LoadInOneTry(items) ==
    IF disk_events.exists /\ disk_events.readable /\ disk_sent.exists /\ disk_sent.readable
    THEN items \cup disk_sent.items ELSE items

\* bot.py:172-182
load_sent_headlines(items) ==
    IF disk_sent.exists /\ disk_sent.readable THEN items \cup disk_sent.items ELSE items

\* bot.py:909-918: start of main_loop
Boot ==
    /\ UNCHANGED <<env, wake_log, overnight, periodic_sent, tg_call, gpt_call, alert_bot>>
    /\ last_scan' = NoScan
    /\ pc = "boot"
    /\ last_report_time' = now
    /\ last_wakeup_triggered_date' = None
    /\ last_wake_up_time' = load_state(last_wake_up_time)
    /\ news_events' = load_events_from_disk(news_events)
    /\ sent_headlines_sent' = load_sent_headlines(sent_headlines_sent)
    /\ current_mode' = get_bot_mode(now)
    /\ sleep_events_collected' = 0
    /\ outbox' = NoMessage
    /\ pc' = "tick"
    /\ UNCHANGED <<now, processed_articles, valid_tickers_cache, current_time, new_events,
                   scanned, disk_events, disk_state, disk_sent, delivered, ingested,
                   failed, owed>>

\* bot.py:922-925
TickStart ==
    /\ UNCHANGED <<env, overnight, tg_call, gpt_call, alert_bot>>
    /\ last_scan' = NoScan
    /\ pc = "tick"
    /\ current_time' = now
    /\ \E ok \in BOOLEAN, ans \in [SwitchLookups -> BOOLEAN] : check_mode_switch(ok, ans)
    /\ IF current_mode = "SLEEP" /\ get_bot_mode(now) = "NORMAL"
       THEN WakeUpCalled(now, "transition")
       ELSE UNCHANGED wake_log
    /\ new_events' = <<>>
    /\ scanned' = 0
    /\ pc' = "scan"
    /\ UNCHANGED <<now, news_events, processed_articles, sent_headlines_sent,
                   last_report_time, last_wakeup_triggered_date,
                   disk_events, disk_sent, ingested>>

\* the article-identity gate left out
NeverProcessed(article_key) == FALSE

\* bot.py:710-712
AlreadyProcessed(article_key) == article_key \in processed_articles

Scanned(result, key) == [result |-> result, key |-> key]

\* bot.py:710
KeyOfEvent(e) == <<e.headline, e.source_url>>

\* bot.py:702-751: one feed entry of the scan pass
ScanEntry ==
    /\ UNCHANGED <<env, wake_log, overnight, periodic_sent, tg_call, gpt_call, alert_bot>>
    /\ pc = "scan"
    /\ scanned < MaxEntriesPerScan
    /\ scanned' = scanned + 1
    /\ \E entry \in env.entries :
        LET headline == clean_text(entry.title)
            link == entry.link
            article_key == <<headline, link>>
            ticker == extract_ticker_from_headline(headline)
        IN  IF headline = <<>> \/ link = NoLink
            THEN /\ last_scan' = Scanned("blank", article_key)
                 /\ UNCHANGED <<now, new_events, processed_articles, valid_tickers_cache, ingested>>
            ELSE IF AlreadyProcessed(article_key)
            THEN /\ last_scan' = Scanned("duplicate", article_key)
                 /\ UNCHANGED <<now, new_events, processed_articles, valid_tickers_cache, ingested>>
            ELSE IF ticker = NoTicker
            THEN /\ last_scan' = Scanned("no_ticker", article_key)
                 /\ UNCHANGED <<now, new_events, processed_articles, valid_tickers_cache, ingested>>
            ELSE \E ans \in [Lookups({ticker}) -> BOOLEAN] :
                    /\ valid_tickers_cache' = CacheAfter(ans)
                    /\ IF ~validate_ticker(ticker, ans)
                       THEN /\ last_scan' = Scanned("invalid_ticker", article_key)
                            /\ UNCHANGED <<now, new_events, processed_articles, ingested>>
                       ELSE \E analysis \in Analyses, d \in env.delays :
                               /\ now + d + EVENT_DELAY_SECONDS <= env.horizon
                               /\ new_events' = Append(new_events,
                                      NewsEvent(headline, ticker, analysis, now + d, link))
                               /\ processed_articles' = processed_articles \cup {article_key}
                               /\ ingested' = ingested (+) SetToBag({article_key})
                               /\ now' = now + d + EVENT_DELAY_SECONDS
                               /\ last_scan' = Scanned("stored", article_key)
    /\ outbox' = NoMessage
    /\ UNCHANGED <<pc, current_mode, sleep_events_collected, last_wake_up_time, news_events,
                   sent_headlines_sent, current_time, last_report_time,
                   last_wakeup_triggered_date, disk_events, disk_state, disk_sent,
                   delivered, failed, owed>>

\* bot.py:935-944: the scan pass has returned; store its events, then sweep
ScanDone ==
    /\ UNCHANGED <<env, wake_log, periodic_sent, tg_call, gpt_call, alert_bot>>
    /\ overnight' = IF current_mode = "SLEEP" THEN overnight \cup Range(new_events)
                    ELSE overnight
    /\ last_scan' = NoScan
    /\ pc = "scan"
    /\ LET stored == DequeExtend(news_events, new_events)
       IN  /\ news_events' = cleanup_old_events(stored, now)
           /\ disk_events' = IF new_events = <<>> THEN disk_events
                             ELSE save_events_to_disk(stored)
    /\ sleep_events_collected' = IF current_mode = "SLEEP"
                                 THEN sleep_events_collected + Len(new_events)
                                 ELSE sleep_events_collected
    /\ new_events' = <<>>
    /\ scanned' = 0
    /\ outbox' = NoMessage
    /\ pc' = "report"
    /\ UNCHANGED <<now, current_mode, last_wake_up_time, processed_articles,
                   sent_headlines_sent, valid_tickers_cache, current_time, last_report_time,
                   last_wakeup_triggered_date, disk_state, disk_sent,
                   delivered, ingested, failed, owed>>

\* bot.py:946-955
Report ==
    /\ UNCHANGED <<env, wake_log, overnight, tg_call, gpt_call, alert_bot>>
    /\ last_scan' = NoScan
    /\ pc = "report"
    /\ IF current_mode = "NORMAL" /\ current_time - last_report_time >= REPORT_INTERVAL_SECONDS
       THEN /\ \E ok \in BOOLEAN, ans \in [TradingLookups -> BOOLEAN] :
                    send_trading_report(ok, ans)
            /\ last_report_time' = current_time
       ELSE /\ NothingHanded
            /\ UNCHANGED <<sent_headlines_sent, disk_sent, valid_tickers_cache, last_report_time>>
    /\ pc' = "brief"
    /\ UNCHANGED <<now, current_mode, sleep_events_collected, last_wake_up_time, news_events,
                   processed_articles, current_time, last_wakeup_triggered_date, new_events,
                   scanned, disk_events, disk_state, ingested>>

\* bot.py:957-962
Brief ==
    /\ UNCHANGED <<env, overnight, tg_call, gpt_call, alert_bot>>
    /\ last_scan' = NoScan
    /\ pc = "brief"
    /\ IF /\ HourOf(current_time) = BRIEF_HOUR
          /\ MinuteOf(current_time) \in {0, 1}
          /\ last_wakeup_triggered_date # DateOf(current_time)
       THEN /\ \E ok \in BOOLEAN, ans \in [WakeLookups -> BOOLEAN] :
                    send_wake_up_report(ok, ans)
            /\ last_wakeup_triggered_date' = DateOf(current_time)
            /\ WakeUpCalled(current_time, "brief")
       ELSE /\ NothingHanded
            /\ UNCHANGED <<last_wake_up_time, disk_state, valid_tickers_cache,
                           last_wakeup_triggered_date, wake_log>>
    /\ pc' = "sleep"
    /\ UNCHANGED <<now, current_mode, sleep_events_collected, news_events,
                   processed_articles, sent_headlines_sent, current_time, last_report_time,
                   new_events, scanned, disk_events, disk_sent, ingested>>

\* bot.py:964-967: the driver cycle ends and the loop waits for the next one
Sleep ==
    /\ UNCHANGED <<env, wake_log, overnight, periodic_sent, tg_call, gpt_call, alert_bot>>
    /\ last_scan' = NoScan
    /\ pc = "sleep"
    /\ now + SCAN_INTERVAL_SECONDS <= env.horizon
    /\ now' = now + SCAN_INTERVAL_SECONDS
    /\ owed' = failed
    /\ failed' = {}
    /\ outbox' = NoMessage
    /\ pc' = "tick"
    /\ UNCHANGED <<current_mode, sleep_events_collected, last_wake_up_time, news_events,
                   processed_articles, sent_headlines_sent, valid_tickers_cache, current_time,
                   last_report_time, last_wakeup_triggered_date, new_events, scanned,
                   disk_events, disk_state, disk_sent, delivered, ingested>>

\* The process is ended while it waits (bot.py:967) and is started again one
\* wait later: the module globals of bot.py:130-140 are fresh, the three
\* files are what they were.
Restart ==
    /\ UNCHANGED <<env, wake_log, overnight, periodic_sent, tg_call, gpt_call, alert_bot>>
    /\ last_scan' = NoScan
    /\ pc = "sleep"
    /\ now + SCAN_INTERVAL_SECONDS <= env.horizon
    /\ now' = now + SCAN_INTERVAL_SECONDS
    /\ pc' = "boot"
    /\ current_mode' = "NORMAL"
    /\ sleep_events_collected' = 0
    /\ last_wake_up_time' = None
    /\ news_events' = <<>>
    /\ processed_articles' = {}
    /\ sent_headlines_sent' = {}
    /\ valid_tickers_cache' = [t \in {} |-> FALSE]
    /\ new_events' = <<>>
    /\ scanned' = 0
    /\ ingested' = EmptyBag
    /\ failed' = {}
    /\ owed' = {}
    /\ outbox' = NoMessage
    /\ UNCHANGED <<current_time, last_report_time, last_wakeup_triggered_date,
                   disk_events, disk_state, disk_sent, delivered>>

\* bot.py:969-994: the operator presses Ctrl+C inside the try block of the
\* driver cycle and answers the menu; unless the answer is quit the loop
\* goes on with a new cycle at once.  What the interrupted scan pass had
\* collected is a local of scan_news_feeds and is gone.
Interrupt ==
    /\ pc \in {"scan", "report", "brief", "sleep"}
    /\ env.interrupts > 0
    /\ env' = [env EXCEPT !.interrupts = @ - 1]
    /\ \E choice \in {"1", "2", "3", "4"} :
          /\ IF choice = "2"
             THEN \E ok \in BOOLEAN, ans \in [TradingLookups -> BOOLEAN] :
                     send_trading_report(ok, ans)
             ELSE /\ NothingHanded
                  /\ UNCHANGED <<sent_headlines_sent, disk_sent, valid_tickers_cache>>
          /\ pc' = IF choice = "4" THEN "done" ELSE "tick"
    /\ new_events' = <<>>
    /\ scanned' = 0
    /\ last_scan' = NoScan
    /\ UNCHANGED <<now, current_mode, sleep_events_collected, last_wake_up_time, news_events,
                   processed_articles, current_time, last_report_time,
                   last_wakeup_triggered_date, disk_events, disk_state, ingested, wake_log,
                   overnight, tg_call, gpt_call, alert_bot>>

\* The process is killed inside a save (open(path, 'w') ... json.dump) and
\* started again one wait later.  The save is the one reached by the step
\* the driver cycle is at: save_events_to_disk after an append (bot.py:941),
\* save_sent_headlines after a delivered periodic report (bot.py:876-879),
\* save_state in the wake-up report of the 07:00 trigger (bot.py:817-818,
\* bot.py:836-838).  What the step did before the save has happened; the
\* module globals of the new process are fresh.
CrashInSave ==
    /\ pc \in {"scan", "report", "brief"}
    /\ now + SCAN_INTERVAL_SECONDS <= env.horizon
    /\ IF pc = "scan"
       THEN /\ new_events # <<>>
            /\ disk_events' = Torn(NoEventsFile)
            /\ outbox' = NoMessage
            /\ UNCHANGED <<disk_sent, disk_state, delivered, periodic_sent, wake_log>>
       ELSE IF pc = "report"
       THEN /\ current_mode = "NORMAL"
            /\ current_time - last_report_time >= REPORT_INTERVAL_SECONDS
            /\ news_events # <<>>
            /\ \E ans \in [TradingLookups -> BOOLEAN] :
                  /\ ~NoEligible(Eligible(ans))
                  /\ outbox' = Message("trading", TopTrading(Eligible(ans)), TRUE)
                  /\ delivered' = delivered \cup HeadlinesOf(TopTrading(Eligible(ans)))
                  /\ periodic_sent' = periodic_sent \cup HeadlinesOf(TopTrading(Eligible(ans)))
            /\ disk_sent' = Torn(NoSentFile)
            /\ UNCHANGED <<disk_events, disk_state, wake_log>>
       ELSE /\ HourOf(current_time) = BRIEF_HOUR
            /\ MinuteOf(current_time) \in {0, 1}
            /\ last_wakeup_triggered_date # DateOf(current_time)
            /\ news_events # <<>>
            /\ \E ans \in [WakeLookups -> BOOLEAN] :
                  IF NoRecent(Recent(ans))
                  THEN /\ outbox' = NoMessage
                       /\ UNCHANGED delivered
                  ELSE /\ outbox' = Message("wakeup", TopWakeUp(Recent(ans)), TRUE)
                       /\ delivered' = delivered \cup HeadlinesOf(TopWakeUp(Recent(ans)))
            /\ WakeUpCalled(current_time, "brief")
            /\ disk_state' = Torn(NoStateFile)
            /\ UNCHANGED <<disk_events, disk_sent, periodic_sent>>
    /\ now' = now + SCAN_INTERVAL_SECONDS
    /\ pc' = "boot"
    /\ current_mode' = "NORMAL"
    /\ sleep_events_collected' = 0
    /\ last_wake_up_time' = None
    /\ news_events' = <<>>
    /\ processed_articles' = {}
    /\ sent_headlines_sent' = {}
    /\ valid_tickers_cache' = [t \in {} |-> FALSE]
    /\ new_events' = <<>>
    /\ scanned' = 0
    /\ ingested' = EmptyBag
    /\ failed' = {}
    /\ owed' = {}
    /\ last_scan' = NoScan
    /\ UNCHANGED <<current_time, last_report_time, last_wakeup_triggered_date, env,
                   overnight, tg_call, gpt_call, alert_bot>>

\* bot.py:665-689: the configuration check, then one pass of the retry loop
TelegramAttempt ==
    /\ tg_call.state = "called"
    /\ IF ~tg_call.config_ok
       THEN tg_call' = [tg_call EXCEPT !.state = "returned", !.result = FALSE]
       ELSE LET status == tg_call.answers[tg_call.attempt + 1]
                outcome == PostOutcome(status, tg_call.attempt)
            IN  tg_call' = [tg_call EXCEPT
                               !.posts = Append(@, status),
                               !.slept = Append(@, IF outcome = "retry"
                                                   THEN 2 ^ tg_call.attempt ELSE 0),
                               !.attempt = IF outcome = "retry" THEN @ + 1 ELSE @,
                               !.state = IF outcome = "retry" THEN "called" ELSE "returned",
                               !.result = (outcome = "success")]
    /\ UNCHANGED <<now, pc, current_mode, sleep_events_collected, last_wake_up_time,
                   news_events, processed_articles, sent_headlines_sent, valid_tickers_cache,
                   current_time, last_report_time, last_wakeup_triggered_date,
                   new_events, scanned, disk_events, disk_state, disk_sent,
                   outbox, delivered, ingested, failed, owed, last_scan, env, wake_log,
                   overnight, periodic_sent, gpt_call, alert_bot>>

\* bot.py:423-453: one pass of the retry loop of call_chatgpt_api; when the
\* loop is left, bot.py:527-570 on what it returned
ClassifierAttempt ==
    /\ gpt_call.state = "called"
    /\ LET reply == gpt_call.replies[gpt_call.attempt + 1]
           outcome == ApiOutcome(reply)
           done == outcome # "retry" \/ gpt_call.attempt = CHATGPT_RETRIES - 1
           response == IF outcome = "return" THEN reply.text ELSE NoResponse
           analysis == analyze_news_with_chatgpt(response)
       IN  gpt_call' = [gpt_call EXCEPT
                           !.posts = Append(@, reply.status),
                           !.slept = Append(@, ApiDelay(reply, gpt_call.attempt)),
                           !.attempt = IF done THEN @ ELSE @ + 1,
                           !.state = IF ~done THEN "called"
                                     ELSE IF analysis.raised THEN "raised" ELSE "returned",
                           !.response = IF done THEN response ELSE @,
                           !.result = IF done THEN analysis.result ELSE @]
    /\ UNCHANGED <<now, pc, current_mode, sleep_events_collected, last_wake_up_time,
                   news_events, processed_articles, sent_headlines_sent, valid_tickers_cache,
                   current_time, last_report_time, last_wakeup_triggered_date,
                   new_events, scanned, disk_events, disk_state, disk_sent,
                   outbox, delivered, ingested, failed, owed, last_scan, env, wake_log,
                   overnight, periodic_sent, tg_call, alert_bot>>

\* bot.py:753-754: a feed raises while it is read (feedparser, an entry of
\* an unexpected shape, the classifier's answer: analyze_news_with_chatgpt
\* raising); the handler inside the loop over the feeds logs it and the pass
\* goes on with what the feeds still have
FeedFails ==
    /\ pc = "scan"
    /\ scanned < MaxEntriesPerScan
    /\ scanned' = scanned + 1
    /\ last_scan' = Scanned("feed_failed", <<>>)
    /\ outbox' = NoMessage
    /\ UNCHANGED <<now, pc, current_mode, sleep_events_collected, last_wake_up_time,
                   news_events, processed_articles, sent_headlines_sent, valid_tickers_cache,
                   current_time, last_report_time, last_wakeup_triggered_date,
                   new_events, disk_events, disk_state, disk_sent,
                   delivered, ingested, failed, owed, env, wake_log,
                   overnight, periodic_sent, tg_call, gpt_call, alert_bot>>

\* bot.py:995-997: a report raises while it builds its message from the
\* events it has selected (', '.join(event.importance_reasons), bot.py:829,
\* bot.py:870, is a TypeError when the classifier's list holds anything but
\* strings); the rest of the driver cycle is skipped, the handler of
\* main_loop logs the exception, waits ERROR_DELAY_SECONDS and the loop
\* goes round
ERROR_DELAY_SECONDS == 30

TickException ==
    /\ pc \in {"report", "brief"}
    /\ now + ERROR_DELAY_SECONDS <= env.horizon
    /\ IF pc = "report"
       THEN /\ current_mode = "NORMAL"
            /\ current_time - last_report_time >= REPORT_INTERVAL_SECONDS
            /\ \E ans \in [TradingLookups -> BOOLEAN] :
                  /\ Eligible(ans) # <<>>
                  /\ valid_tickers_cache' = CacheAfter(ans)
       ELSE /\ HourOf(current_time) = BRIEF_HOUR
            /\ MinuteOf(current_time) \in {0, 1}
            /\ last_wakeup_triggered_date # DateOf(current_time)
            /\ \E ans \in [WakeLookups -> BOOLEAN] :
                  /\ Recent(ans) # <<>>
                  /\ valid_tickers_cache' = CacheAfter(ans)
    /\ now' = now + ERROR_DELAY_SECONDS
    /\ pc' = "tick"
    /\ owed' = failed
    /\ failed' = {}
    /\ outbox' = NoMessage
    /\ last_scan' = NoScan
    /\ UNCHANGED <<current_mode, sleep_events_collected, last_wake_up_time, news_events,
                   processed_articles, sent_headlines_sent, current_time,
                   last_report_time, last_wakeup_triggered_date, new_events, scanned,
                   disk_events, disk_state, disk_sent, delivered, ingested, env, wake_log,
                   overnight, periodic_sent, tg_call, gpt_call, alert_bot>>


Next ==
    \/ Boot
    \/ TickStart
    \/ ScanEntry
    \/ ScanDone
    \/ Report
    \/ Brief
    \/ Sleep
    \/ Restart

Spec == Init /\ [][Next]_vars

(***************************************************************************)
(* Digest selection on stores of up to MaxDigestStore events: the driver   *)
(* cycle of Monday 07:00:00 in NORMAL mode with a trading report due and   *)
(* the daily brief not yet triggered, its scan pass finished.  Event i of  *)
(* the store was ingested 2 s after event i-1.                             *)
(***************************************************************************)
MaxDigestStore == 6

DigestTime == 7 * 3600
DigestWords == << "a", "b", "c", "d", "e", "f", "g", "h", "i", "j" >>
DigestTicker(i) == IF i % 2 = 1 THEN "ACME" ELSE "BETA"
DigestTitle(i) == << Tok("dollar", DigestTicker(i)), SP, Tok("word", DigestWords[i]) >>
DigestAnalyses == { Analysis("BULLISH", 50), Analysis("BEARISH", 80), Analysis("NEUTRAL", 90) }

DigestEvent(i, n, analysis) ==
    NewsEvent(clean_text(DigestTitle(i)), extract_ticker_from_headline(clean_text(DigestTitle(i))),
              analysis, DigestTime - EVENT_DELAY_SECONDS * (n - i + 1), "l1")

DigestStores ==
    UNION { { [i \in 1..n |-> DigestEvent(i, n, f[i])] : f \in [1..n -> DigestAnalyses] }
            : n \in 0..MaxDigestStore }

DigestLedgers == { {}, {clean_text(DigestTitle(1))},
                   {clean_text(DigestTitle(2)), clean_text(DigestTitle(3))} }

DigestCaches == { [t \in {} |-> FALSE], [t \in {"ACME", "BETA"} |-> TRUE] }

InitDigest ==
    /\ now = DigestTime
    /\ pc = "report"
    /\ current_mode = "NORMAL"
    /\ sleep_events_collected = 0
    /\ last_wake_up_time = None
    /\ news_events \in DigestStores
    /\ processed_articles = { KeyOfEvent(news_events[i]) : i \in 1..Len(news_events) }
    /\ sent_headlines_sent \in DigestLedgers
    /\ valid_tickers_cache \in DigestCaches
    /\ current_time = DigestTime
    /\ last_report_time = DigestTime - REPORT_INTERVAL_SECONDS
    /\ last_wakeup_triggered_date = None
    /\ new_events = <<>>
    /\ scanned = 0
    /\ disk_events = IF news_events = <<>> THEN NoEventsFile ELSE save_events_to_disk(news_events)
    /\ disk_state = NoStateFile
    /\ disk_sent = IF sent_headlines_sent = {} THEN NoSentFile
                   ELSE save_sent_headlines(sent_headlines_sent)
    /\ outbox = NoMessage
    /\ delivered = sent_headlines_sent
    /\ ingested = SetToBag(processed_articles)
    /\ failed = {}
    /\ owed = {}
    /\ last_scan = NoScan
    /\ env = Surroundings({}, FetchDelays, DigestTime, DigestTime, 0)
    /\ wake_log = {}
    /\ overnight = Overnight(news_events)
    /\ periodic_sent = delivered
    /\ NoCalls

NextDigest ==
    \/ Report
    \/ Brief

SpecDigest == InitDigest /\ [][NextDigest]_vars

(***************************************************************************)
(* The mode around the clock: one driver cycle begun at the first or the   *)
(* last second of any hour of a week, by a process whose previous cycle    *)
(* began one scan interval earlier.  The store is empty or holds one event *)
(* collected two cycles before.                                            *)
(***************************************************************************)
Week == 7 * 86400

ClockInstants == { Week + h * 3600 + o : h \in 0..167, o \in {0, 3599} }

ClockEntries == { Entry(TitleAcme, "l1"), Entry(TitleFed, "l1") }

ClockStores(t) ==
    { <<>>,
      << NewsEvent(clean_text(TitleBeta), extract_ticker_from_headline(clean_text(TitleBeta)),
                   Analysis("BEARISH", 80), t - 2 * SCAN_INTERVAL_SECONDS, "l1") >> }

InitClock ==
    /\ now \in ClockInstants
    /\ pc = "tick"
    /\ current_mode = get_bot_mode(now - SCAN_INTERVAL_SECONDS)
    /\ sleep_events_collected = 0
    /\ last_wake_up_time = None
    /\ news_events \in ClockStores(now)
    /\ processed_articles = { KeyOfEvent(news_events[i]) : i \in 1..Len(news_events) }
    /\ sent_headlines_sent = {}
    /\ valid_tickers_cache = [t \in { news_events[i].ticker : i \in 1..Len(news_events) } |-> TRUE]
    /\ current_time = now - SCAN_INTERVAL_SECONDS
    /\ last_report_time = now - SCAN_INTERVAL_SECONDS
    /\ last_wakeup_triggered_date = None
    /\ new_events = <<>>
    /\ scanned = 0
    /\ disk_events = IF news_events = <<>> THEN NoEventsFile ELSE save_events_to_disk(news_events)
    /\ disk_state = NoStateFile
    /\ disk_sent = NoSentFile
    /\ outbox = NoMessage
    /\ delivered = {}
    /\ ingested = SetToBag(processed_articles)
    /\ failed = {}
    /\ owed = {}
    /\ last_scan = NoScan
    /\ env = Surroundings(ClockEntries, FetchDelays, now, now + SCAN_INTERVAL_SECONDS, 0)
    /\ wake_log = {}
    /\ overnight = Overnight(news_events)
    /\ periodic_sent = delivered
    /\ NoCalls

NextClock ==
    \/ TickStart
    \/ ScanEntry
    \/ ScanDone
    \/ Report
    \/ Brief

SpecClock == InitClock /\ [][NextClock]_vars

(***************************************************************************)
(* A night: the process has been running all day and is in SLEEP mode at   *)
(* 23:00 (or 23:00:30, its cycles having drifted) of a Monday to Friday;   *)
(* the clock is followed to MaxRun minutes past 07:00 of the next morning. *)
(* Overnight the feeds serve only entries the gates drop.  The store is    *)
(* empty or holds one event collected two cycles before.                   *)
(***************************************************************************)
NightInstants == { d * 86400 + 23 * 3600 + o : d \in 0..4, o \in {0, 30} }

NextMorning(t) == (DateOf(t) + 1) * 86400 + SLEEP_END_HOUR * 3600

NightEntries == { Entry(TitleFed, "l1"), Entry(TitleBeta, NoLink) }

InitNight ==
    /\ now \in NightInstants
    /\ pc = "tick"
    /\ current_mode = "SLEEP"
    /\ last_wake_up_time = None
    /\ news_events \in ClockStores(now)
    /\ sleep_events_collected = Len(news_events)
    /\ processed_articles = { KeyOfEvent(news_events[i]) : i \in 1..Len(news_events) }
    /\ sent_headlines_sent = {}
    /\ valid_tickers_cache = [t \in { news_events[i].ticker : i \in 1..Len(news_events) } |-> TRUE]
    /\ current_time = now - SCAN_INTERVAL_SECONDS
    /\ last_report_time = DateOf(now) * 86400 + SLEEP_START_HOUR * 3600 - SCAN_INTERVAL_SECONDS
    /\ last_wakeup_triggered_date = DateOf(now)
    /\ new_events = <<>>
    /\ scanned = 0
    /\ disk_events = IF news_events = <<>> THEN NoEventsFile ELSE save_events_to_disk(news_events)
    /\ disk_state = NoStateFile
    /\ disk_sent = NoSentFile
    /\ outbox = NoMessage
    /\ delivered = {}
    /\ ingested = SetToBag(processed_articles)
    /\ failed = {}
    /\ owed = {}
    /\ last_scan = NoScan
    /\ env = Surroundings(NightEntries, FetchDelays, now, NextMorning(now) + MaxRun * 60, 0)
    /\ wake_log = {}
    /\ overnight = Overnight(news_events)
    /\ periodic_sent = delivered
    /\ NoCalls

NextNight ==
    \/ TickStart
    \/ ScanEntry
    \/ ScanDone
    \/ Report
    \/ Brief
    \/ Sleep

SpecNight == InitNight /\ [][NextNight]_vars

(***************************************************************************)
(* Around the mode boundaries with slow fetches.  The process has been     *)
(* running for days and its next driver cycle begins                       *)
(*   - Monday 06:59:00, in SLEEP, the store empty or holding one event     *)
(*     collected at 06:50 (no sweep has run since Friday 21:00);           *)
(*   - Monday 20:59:00, in NORMAL, the store empty or holding one event    *)
(*     collected at 20:57, the last trading report attempted at 20:55;     *)
(*   - Sunday 06:59:00, in SLEEP, the store holding a NEUTRAL event of     *)
(*     Friday 23:30 and a BULLISH event of Saturday 08:00; the brief       *)
(*     trigger of Saturday 07:00 found nothing to report and set the       *)
(*     last-wake-up instant.                                               *)
(* A fetch with its classification takes no time or SlowFetch seconds.     *)
(***************************************************************************)
SlowFetch == SCAN_INTERVAL_SECONDS - EVENT_DELAY_SECONDS

SchedEntries == { Entry(TitleAcme, "l1"), Entry(TitleAcme, "l2"), Entry(TitleFed, "l1") }

Day(d) == d * 86400
Clock(h, m) == h * 3600 + m * 60

BetaEvent(analysis, timestamp) ==
    NewsEvent(clean_text(TitleBeta), extract_ticker_from_headline(clean_text(TitleBeta)),
              analysis, timestamp, "l3")

AcmeEvent(analysis, timestamp) ==
    NewsEvent(clean_text(TitleAcme), extract_ticker_from_headline(clean_text(TitleAcme)),
              analysis, timestamp, "l0")

SchedSurroundings(t) == Surroundings(SchedEntries, {0, SlowFetch}, t, t + MaxRun * 60, 0)

\* the state at the start of a driver cycle at instant t of a process that
\* has not been restarted since its files were first written
Scene(t, mode, store, collected, marker, log, reported, triggered, surroundings) ==
    /\ now = t
    /\ pc = "tick"
    /\ current_mode = mode
    /\ sleep_events_collected = collected
    /\ last_wake_up_time = marker
    /\ news_events = store
    /\ processed_articles = { KeyOfEvent(store[i]) : i \in 1..Len(store) }
    /\ sent_headlines_sent = {}
    /\ valid_tickers_cache = [s \in { store[i].ticker : i \in 1..Len(store) } |-> TRUE]
    /\ current_time = t - SCAN_INTERVAL_SECONDS
    /\ last_report_time = reported
    /\ last_wakeup_triggered_date = triggered
    /\ new_events = <<>>
    /\ scanned = 0
    /\ disk_events = IF store = <<>> THEN NoEventsFile ELSE save_events_to_disk(store)
    /\ disk_state = IF marker = None THEN NoStateFile ELSE save_state(marker)
    /\ disk_sent = NoSentFile
    /\ outbox = NoMessage
    /\ delivered = {}
    /\ ingested = SetToBag(processed_articles)
    /\ failed = {}
    /\ owed = {}
    /\ last_scan = NoScan
    /\ env = surroundings
    /\ wake_log = log
    /\ overnight = Overnight(store)
    /\ periodic_sent = delivered
    /\ NoCalls

InitSched ==
    \/ \E store \in { <<>>, << BetaEvent(Analysis("BEARISH", 80), Day(0) + Clock(6, 50)) >> } :
          Scene(Day(0) + Clock(6, 59), "SLEEP", store, Len(store), None, {},
                Day(-3) + Clock(20, 55), None, SchedSurroundings(Day(0) + Clock(6, 59)))
    \/ \E store \in { <<>>, << BetaEvent(Analysis("BEARISH", 80), Day(0) + Clock(20, 57)) >> } :
          Scene(Day(0) + Clock(20, 59), "NORMAL", store, 0, None, {},
                Day(0) + Clock(20, 55), Day(0) \div 86400,
                SchedSurroundings(Day(0) + Clock(20, 59)))
    \/ Scene(Day(6) + Clock(6, 59), "SLEEP",
             << AcmeEvent(Analysis("NEUTRAL", 0), Day(4) + Clock(23, 30)),
                BetaEvent(Analysis("BULLISH", 80), Day(5) + Clock(8, 0)) >>,
             2, Day(5) + Clock(7, 0),
             { [at |-> Day(5) + Clock(7, 0), tick |-> Day(5) + Clock(7, 0),
                trigger |-> "brief", handed |-> FALSE, ok |-> FALSE] },
             Day(4) + Clock(20, 55), (Day(5) + Clock(7, 0)) \div 86400,
             SchedSurroundings(Day(6) + Clock(6, 59)))

NextSched ==
    \/ TickStart
    \/ ScanEntry
    \/ ScanDone
    \/ Report
    \/ Brief
    \/ Sleep

SpecSched == InitSched /\ [][NextSched]_vars

(***************************************************************************)
(* The operator at the console: the cycles of Spec, from the same start,   *)
(* with up to MaxInterrupts presses of Ctrl+C.                             *)
(***************************************************************************)
MaxInterrupts == 1

OperatorEntries == { Entry(TitleAcme, "l1"), Entry(TitleAcme, "l2"), Entry(TitleFed, "l1") }

InitOperator ==
    Scene(StartTime, get_bot_mode(BootTime), <<>>, 0, None, {}, BootTime, None,
          Surroundings(OperatorEntries, FetchDelays, StartTime, Horizon, MaxInterrupts))

NextOperator ==
    \/ TickStart
    \/ ScanEntry
    \/ ScanDone
    \/ Report
    \/ Brief
    \/ Sleep
    \/ Interrupt

SpecOperator == InitOperator /\ [][NextOperator]_vars

(***************************************************************************)
(* Properties                                                              *)
(***************************************************************************)
DigestHanded == outbox.kind \in {"trading", "wakeup"}

\* C1: within one process run every article key (headline, link) is appended
\* by the scan passes at most once: a key already in the Dedup Ledger is
\* dropped, so no key has two entries among the events of this run, and the
\* events one scan pass returns have pairwise distinct keys.
C1_IngestedOnce ==
    /\ \A k \in BagToSet(ingested) : CopiesIn(k, ingested) = 1
    /\ BagToSet(ingested) = processed_articles
    /\ \A i, j \in 1..Len(new_events) : KeyOfEvent(new_events[i]) = KeyOfEvent(new_events[j]) => i = j
    /\ last_scan.result = "duplicate" => CopiesIn(last_scan.key, ingested) = 1

\* C1 witness: a feed entry whose key was ingested before has just been
\* read again and dropped.
C1_Witness ==
    /\ last_scan.result = "duplicate"
    /\ last_scan.key \in processed_articles

\* C2: no digest handed to the Delivery Gateway (trading or wake-up) holds an
\* event whose headline is in the Sent Ledger at the moment it is built.
C2_DigestExcludesSent ==
    DigestHanded => HeadlinesOf(outbox.events) \cap outbox.ledger = {}

\* C3: after a successful delivery every headline of the digest is in the
\* Sent Ledger and in its persisted copy, and none of them had been in a
\* successfully delivered digest before.
C3_DeliveredIsLedgered ==
    (DigestHanded /\ outbox.ok) =>
        /\ HeadlinesOf(outbox.events) \subseteq sent_headlines_sent
        /\ disk_sent.exists /\ HeadlinesOf(outbox.events) \subseteq disk_sent.items
        /\ HeadlinesOf(outbox.events) \cap outbox.prior = {}

LedgersChange ==
    \/ sent_headlines_sent' # sent_headlines_sent
    \/ disk_sent' # disk_sent
    \/ last_wake_up_time' # last_wake_up_time
    \/ disk_state' # disk_state

SameRun == pc # "boot" /\ pc' # "boot"

WakeUpFoundNothing ==
    /\ pc \in {"tick", "brief"}
    /\ news_events # <<>>
    /\ outbox'.kind = "none"
    /\ \A e \in Range(news_events) :
          ~(/\ e.timestamp >= SinceTime
            /\ IsDirectional(e)
            /\ valid_tickers_cache'[e.ticker])

C5_RetriedNextCycle ==
    pc = "sleep" => owed = {}

\* C7: every message handed to the Delivery Gateway lists at least one
\* event; with nothing eligible nothing is handed over.
C7_NoEmptyDigest ==
    DigestHanded => Len(outbox.events) >= 1

\* C7 witness: a trading report was due with a non-empty store whose events
\* are all ineligible, and no message was handed over.
C7_Witness ==
    /\ pc = "brief"
    /\ current_mode = "NORMAL"
    /\ last_report_time = current_time
    /\ news_events # <<>>
    /\ outbox = NoMessage

\* C8: every event in an outbound report is BULLISH or BEARISH and has a
\* ticker the validator answered true for.
C8_OnlyDirectionalValid ==
    DigestHanded =>
        \A e \in Range(outbox.events) :
            /\ e.sentiment \in {"BULLISH", "BEARISH"}
            /\ e.ticker \in DOMAIN valid_tickers_cache
            /\ valid_tickers_cache[e.ticker]

\* C8 witness: a report went out while a NEUTRAL event sat in the store.
C8_Witness ==
    /\ DigestHanded
    /\ \E e \in Range(news_events) : e.sentiment = "NEUTRAL"

\* C10: two delivered alerts for one ticker are at least cooldownDuration
\* apart; the alerts of one digest are delivered at the same instant, so a
\* delivered digest holds at most one alert per ticker.
C10_Cooldown ==
    (DigestHanded /\ outbox.ok) =>
        \A i, j \in 1..Len(outbox.events) :
            (i # j /\ outbox.events[i].ticker = outbox.events[j].ticker)
                => 0 >= cooldownDuration

\* the events that were eligible for the trading digest in outbox when it
\* was built (bot.py:850-855), in Event Store order
EligibleAtBuild ==
    LET ok(e) == /\ e.sentiment \in {"BULLISH", "BEARISH"}
                 /\ e.ticker \in DOMAIN valid_tickers_cache
                 /\ valid_tickers_cache[e.ticker]
                 /\ e.headline \notin outbox.ledger
    IN  SelectSeq(news_events, ok)

\* C6: the periodic digest holds exactly min(5, n) of the n eligible events,
\* none of them twice; no eligible event left out has a higher score than
\* an included one; the included events are listed by descending score.
C6_TopFiveByScore ==
    outbox.kind = "trading" =>
        LET d == outbox.events
            n == Len(EligibleAtBuild)
        IN  /\ Len(d) = IF n < 5 THEN n ELSE 5
            /\ Range(d) \subseteq Range(EligibleAtBuild)
            /\ Cardinality(Range(d)) = Len(d)
            /\ \A e \in Range(EligibleAtBuild) \ Range(d) :
                  \A x \in Range(d) : e.confidence_score <= x.confidence_score
            /\ \A i, j \in 1..Len(d) :
                  i < j => d[i].confidence_score >= d[j].confidence_score

\* C6 witness: more than five events were eligible, of unequal scores, and
\* the digest left the lowest out.
C6_Witness ==
    /\ outbox.kind = "trading"
    /\ Len(EligibleAtBuild) > 5
    /\ Len(outbox.events) = 5
    /\ \E e \in Range(EligibleAtBuild) \ Range(outbox.events) :
          \E x \in Range(outbox.events) : e.confidence_score < x.confidence_score

\* C9: of two eligible events of equal score the digest ranks the more
\* recent one first, and when only one of them fits in it is the more
\* recent one.
C9_TiesByRecency ==
    DigestHanded =>
        LET d == outbox.events
        IN  /\ \A i, j \in 1..Len(d) :
                  (i < j /\ d[i].confidence_score = d[j].confidence_score)
                      => d[i].timestamp >= d[j].timestamp
            /\ outbox.kind = "trading" =>
                  \A e \in Range(EligibleAtBuild) \ Range(d) :
                      \A x \in Range(d) :
                          e.confidence_score = x.confidence_score
                              => x.timestamp >= e.timestamp

\* the hours of the nightly window [start, end), wrapping past midnight
\* when start > end
NightHours ==
    IF SLEEP_START_HOUR <= SLEEP_END_HOUR
    THEN SLEEP_START_HOUR .. (SLEEP_END_HOUR - 1)
    ELSE (SLEEP_START_HOUR .. 23) \cup (0 .. (SLEEP_END_HOUR - 1))

\* C11: the mode a driver cycle runs in is a function of the weekday and the
\* hour of the cycle's clock reading alone: SLEEP exactly when sleep mode is
\* enabled and the day is a weekend day with weekend-sleep enabled or a
\* weekday with the hour in the nightly window, NORMAL otherwise, whatever
\* the mode before, the store, the feeds, the classifier and the delivery.
C11_ModeOfClock ==
    pc \in {"scan", "report", "brief", "sleep"} =>
        LET day == (current_time \div 86400) % 7
            hour == (current_time % 86400) \div 3600
            asleep == /\ SLEEP_MODE_ENABLED
                      /\ \/ day \in {5, 6} /\ SLEEP_WEEKENDS
                         \/ day \in 0..4 /\ hour \in NightHours
        IN  current_mode = IF asleep THEN "SLEEP" ELSE "NORMAL"

\* C11 witness: a cycle begun at 21:00 of a weekday by a process that was in
\* NORMAL mode has gone to SLEEP and stored an event.
C11_Witness ==
    /\ pc = "report"
    /\ current_mode = "SLEEP"
    /\ current_time % 86400 = 21 * 3600
    /\ (current_time \div 86400) % 7 = 2
    /\ Len(news_events) = 2

\* a driver cycle has begun and its mode check is done
Ticked == pc \in {"scan", "report", "brief", "sleep"}

\* C12 as stated: started in SLEEP at 23:00 of any weekday, Monday to
\* Friday, the mode is SLEEP in every cycle begun before 07:00 of the next
\* morning and NORMAL from the first cycle begun at or after it.
C12_WakesAtSeven ==
    Ticked => (current_mode = "SLEEP" <=> current_time < NextMorning(env.start))

\* C12 amended: that holds for a start on Monday to Thursday; after a start
\* on Friday the next morning is a Saturday and the mode stays SLEEP.
C12_WeeknightWakesAtSeven ==
    Ticked =>
        IF WeekdayOf(env.start) \in 0..3
        THEN current_mode = "SLEEP" <=> current_time < NextMorning(env.start)
        ELSE current_mode = "SLEEP"

\* C12 witness: after a night begun on a Monday to Thursday the first cycle
\* at or after 07:00 has switched to NORMAL and called for the wake-up report.
C12_Witness ==
    /\ Ticked
    /\ WeekdayOf(env.start) \in 0..3
    /\ current_mode = "NORMAL"
    /\ current_time >= NextMorning(env.start)
    /\ current_time < NextMorning(env.start) + SCAN_INTERVAL_SECONDS
    /\ \E w \in wake_log : w.trigger = "transition" /\ w.tick = current_time

\* the wake-up reports handed to the Delivery Gateway on calendar day d
WakeUpReportsOn(d) == { w \in wake_log : w.handed /\ DateOf(w.at) = d }

\* C13: on a calendar day on which the scheduler went SLEEP -> NORMAL, the
\* transition and the fixed 07:00 trigger together generate one wake-up
\* report, never two.
C13_OneWakeUpReport ==
    \A t \in wake_log :
        t.trigger = "transition" => Cardinality(WakeUpReportsOn(DateOf(t.at))) <= 1

\* the calls of the fixed daily brief trigger in cycles begun on calendar day d
BriefTriggersOn(d) == { w \in wake_log : w.trigger = "brief" /\ DateOf(w.tick) = d }

\* C14: the mode-independent daily brief trigger fires at most once per
\* calendar day, over all cycles in the brief window and over restarts.
C14_BriefOncePerDay ==
    \A w \in wake_log : Cardinality(BriefTriggersOn(DateOf(w.tick))) <= 1

\* the calls of send_wake_up_report, by either trigger, in cycles begun on
\* calendar day d
WakeUpCallsOn(d) == { w \in wake_log : DateOf(w.tick) = d }

\* C15: on a day on which the driver loop was running when the clock passed
\* the brief hour, the wake-up report has been triggered by the end of the
\* first cycle begun at or after 07:01, and the daily trigger has not fired
\* twice, in either mode, weekends included, however long the scan passes
\* lasted.
C15_BriefEveryDay ==
    (/\ pc = "sleep"
     /\ HourOf(current_time) = BRIEF_HOUR
     /\ MinuteOf(current_time) >= 1
     /\ env.start < Day(DateOf(current_time)) + Clock(BRIEF_HOUR, 0))
        => /\ WakeUpCallsOn(DateOf(current_time)) # {}
           /\ Cardinality(BriefTriggersOn(DateOf(current_time))) <= 1

C17_CounterResetOnSwitch ==
    [][(pc = "tick" /\ current_mode' # current_mode) =>
          /\ sleep_events_collected' = 0
          /\ current_mode = "NORMAL" => outbox' = NoMessage]_vars

\* C17 witness: the scheduler has just woken up with events counted during
\* the sleep, its wake-up report failed, and the counter is 0.
C17_Witness ==
    /\ pc = "scan"
    /\ scanned = 0
    /\ current_mode = "NORMAL"
    /\ outbox.kind = "wakeup"
    /\ ~outbox.ok
    /\ Len(news_events) >= 2
    /\ sleep_events_collected = 0

\* C18: in a driver cycle run in SLEEP mode no periodic trading report is
\* handed to the Delivery Gateway, and when the scan pass of the cycle is
\* over, however it ended, every event it accepted is in the Event Store.
C18_SleepCollects ==
    [][/\ (pc = "report" /\ current_mode = "SLEEP") => outbox'.kind # "trading"
       /\ (pc = "scan" /\ pc' # "scan" /\ current_mode = "SLEEP") =>
              \A i \in 1..Len(new_events) : new_events[i] \in Range(news_events')]_vars

\* the step that ends a scan pass: its events are appended and the
\* retention sweep is called (bot.py:935-944)
SweepStep == pc = "scan" /\ pc' = "report"

C20_NoSweepInSleep ==
    [][(SweepStep /\ (current_mode = "SLEEP" \/ HourOf(now) < 7)) =>
          news_events' = DequeExtend(news_events, new_events)]_vars

\* the wake-up report of the SLEEP -> NORMAL transition that follows the
\* collection of e has gone out: the transition's call was accepted by the
\* Delivery Gateway, or found nothing to hand to it
WakeUpWentOut(e) ==
    \E w \in wake_log : /\ w.trigger = "transition"
                        /\ w.at >= e.timestamp
                        /\ (w.ok \/ ~w.handed)

\* C21: an event appended while the scheduler was in SLEEP stays in the
\* Event Store until the wake-up report of the next SLEEP -> NORMAL
\* transition has gone out, unless the capacity cap displaces it: no step
\* removes such an event before.
C21_OvernightKept ==
    [][\A e \in overnight :
          (e \in Range(news_events) /\ ~WakeUpWentOut(e))
          => \/ e \in Range(news_events')
             \/ Len(news_events) + Len(new_events) > MAX_EVENTS_TO_STORE]_vars

(***************************************************************************)
(* At the capacity cap.  A process is started on Saturday 10:00:00 (the    *)
(* weekend is SLEEP: no sweep runs) beside an events.json of 0, C-1, C or  *)
(* C+2 events collected one every 2 s in the hour before, and may be       *)
(* restarted while it waits.                                               *)
(***************************************************************************)
CapStart == Day(5) + Clock(10, 0)

CapEvent(i) ==
    NewsEvent(clean_text(DigestTitle((i % 10) + 1)),
              extract_ticker_from_headline(clean_text(DigestTitle((i % 10) + 1))),
              Analysis("BULLISH", 50), CapStart - 3600 + EVENT_DELAY_SECONDS * i, "l3")

CapSnapshots ==
    { [i \in 1..n |-> CapEvent(i)] :
        n \in {0, MAX_EVENTS_TO_STORE - 1, MAX_EVENTS_TO_STORE, MAX_EVENTS_TO_STORE + 2} }

InitCap ==
    /\ now = CapStart
    /\ pc = "boot"
    /\ current_mode = "NORMAL"
    /\ sleep_events_collected = 0
    /\ last_wake_up_time = None
    /\ news_events = <<>>
    /\ processed_articles = {}
    /\ sent_headlines_sent = {}
    /\ valid_tickers_cache = [t \in {} |-> FALSE]
    /\ current_time = CapStart
    /\ last_report_time = CapStart
    /\ last_wakeup_triggered_date = None
    /\ new_events = <<>>
    /\ scanned = 0
    /\ \E snapshot \in CapSnapshots :
          disk_events = IF snapshot = <<>> THEN NoEventsFile
                        ELSE [exists |-> TRUE, readable |-> TRUE, data |-> snapshot]
    /\ disk_state = NoStateFile
    /\ disk_sent = NoSentFile
    /\ outbox = NoMessage
    /\ delivered = {}
    /\ ingested = EmptyBag
    /\ failed = {}
    /\ owed = {}
    /\ last_scan = NoScan
    /\ env = Surroundings(SchedEntries, FetchDelays, CapStart, CapStart + MaxRun * 60, 0)
    /\ wake_log = {}
    /\ overnight = Overnight(disk_events.data)
    /\ periodic_sent = delivered
    /\ NoCalls

NextCap ==
    \/ Boot
    \/ TickStart
    \/ ScanEntry
    \/ ScanDone
    \/ Report
    \/ Brief
    \/ Sleep
    \/ Restart

SpecCap == InitCap /\ [][NextCap]_vars

\* the last n elements of a sequence, all of it when it is shorter
LastOf(s, n) == SubSeq(s, Len(s) - Min(n, Len(s)) + 1, Len(s))

\* C22: the Event Store never holds more than C = MAX_EVENTS_TO_STORE events,
\* right after hydration from a snapshot of any length and in SLEEP included;
\* appending the events of a scan pass keeps the newest C of the store
\* followed by the new events, in their arrival order: each append to a full
\* store drops exactly the oldest event.
C22_Capacity ==
    /\ [](Len(news_events) <= MAX_EVENTS_TO_STORE)
    /\ [][(pc = "scan" /\ pc' = "report" /\ is_sleep_time(now))
          => news_events' = LastOf(news_events \o new_events, MAX_EVENTS_TO_STORE)]_vars

\* a scan pass has just appended to a full store, in SLEEP: the store is
\* full, its newest event is of this process run and its oldest is no
\* longer the first event of the snapshot
C22_Witness ==
    /\ pc = "report"
    /\ current_mode = "SLEEP"
    /\ Len(news_events) = MAX_EVENTS_TO_STORE
    /\ news_events[MAX_EVENTS_TO_STORE].timestamp >= CapStart
    /\ news_events[1].timestamp > CapEvent(1).timestamp
    /\ news_events[1].timestamp < CapStart

\* C23: the Event Store is ordered by timestamp: of any two events the one
\* appended earlier (nearer the head of the store) has the smaller or equal
\* timestamp, within a scan pass, across scan passes and across a restart.
C23_OrderedByTimestamp ==
    \A i, j \in 1..Len(news_events) :
        i < j => news_events[i].timestamp <= news_events[j].timestamp

\* the store holds an event hydrated from the snapshot (its article is not
\* in the ledger of this process run) before two events this run appended,
\* of one scan pass or of two
C23_Witness ==
    /\ pc = "report"
    /\ Len(news_events) >= 3
    /\ KeyOfEvent(news_events[1]) \notin processed_articles
    /\ KeyOfEvent(news_events[Len(news_events) - 1]) \in processed_articles
    /\ KeyOfEvent(news_events[Len(news_events)]) \in processed_articles
    /\ news_events[1].timestamp < news_events[Len(news_events)].timestamp

\* C24: a restart does not replay history: the Event Store never holds two
\* entries for one article (headline, link), also when the store was
\* hydrated from the snapshot and the article is served again after the
\* restart.
C24_NoReplay ==
    \A i, j \in 1..Len(news_events) :
        i # j => KeyOfEvent(news_events[i]) # KeyOfEvent(news_events[j])

(***************************************************************************)
(* The durable records.  Either the fresh installation of Init, or a       *)
(* process started on Tuesday 07:00:00 beside any combination of the three *)
(* files, each absent, complete or torn; the process may be restarted      *)
(* while it waits and may be killed inside a save.                         *)
(***************************************************************************)
StartUpTime == Day(1) + Clock(7, 0)

FileStates == {"absent", "complete", "torn"}

StartUpEntries == { Entry(TitleAcme, "l1"), Entry(TitleFed, "l1") }

InitStartUp ==
    /\ now = StartUpTime
    /\ pc = "boot"
    /\ current_mode = "NORMAL"
    /\ sleep_events_collected = 0
    /\ last_wake_up_time = None
    /\ news_events = <<>>
    /\ processed_articles = {}
    /\ sent_headlines_sent = {}
    /\ valid_tickers_cache = [t \in {} |-> FALSE]
    /\ current_time = StartUpTime
    /\ last_report_time = StartUpTime
    /\ last_wakeup_triggered_date = None
    /\ new_events = <<>>
    /\ scanned = 0
    /\ \E f \in [{"events", "state", "sent"} -> FileStates] :
          /\ disk_events = IF f["events"] = "absent" THEN NoEventsFile
                           ELSE IF f["events"] = "torn" THEN Torn(NoEventsFile)
                           ELSE save_events_to_disk(
                                    << BetaEvent(Analysis("BEARISH", 80), StartUpTime - 120) >>)
          /\ disk_state = IF f["state"] = "absent" THEN NoStateFile
                          ELSE IF f["state"] = "torn" THEN Torn(NoStateFile)
                          ELSE save_state(StartUpTime - 86400)
          /\ disk_sent = IF f["sent"] = "absent" THEN NoSentFile
                         ELSE IF f["sent"] = "torn" THEN Torn(NoSentFile)
                         ELSE save_sent_headlines({clean_text(TitleBeta)})
    /\ outbox = NoMessage
    /\ delivered = IF disk_sent.readable THEN disk_sent.items ELSE {}
    /\ ingested = EmptyBag
    /\ failed = {}
    /\ owed = {}
    /\ last_scan = NoScan
    /\ env = Surroundings(StartUpEntries, FetchDelays, StartUpTime,
                          StartUpTime + SCAN_INTERVAL_SECONDS, 0)
    /\ wake_log = {}
    /\ overnight = {}
    /\ periodic_sent = delivered
    /\ NoCalls

InitDurable == Init \/ InitStartUp

NextDurable ==
    \/ Boot
    \/ TickStart
    \/ ScanEntry
    \/ ScanDone
    \/ Report
    \/ Brief
    \/ Sleep
    \/ Restart
    \/ CrashInSave

SpecDurable == InitDurable /\ [][NextDurable]_vars

\* C25: the Sent Ledger survives a restart: once start-up has loaded the
\* persisted record, every headline a periodic report has delivered, before
\* the restart or since, is in the Sent Ledger, and no periodic digest
\* handed to the Delivery Gateway holds a headline a periodic report has
\* already delivered.
C25_SentSurvives ==
    /\ [](pc # "boot" => periodic_sent \subseteq sent_headlines_sent)
    /\ [][outbox'.kind = "trading"
          => HeadlinesOf(outbox'.events) \cap periodic_sent = {}]_vars

\* C26: whatever subset of the three records is present at start-up, and
\* whichever of them cannot be read, start-up completes, and it leaves each
\* in-memory state holding what its own record holds when that record is
\* present and readable, and empty (the default) when it is not, whatever
\* the other two records are.
C26_StartUpLoadsEach ==
    /\ [](pc = "boot" => ENABLED Boot)
    /\ [][(pc = "boot" /\ pc' = "tick")
          => /\ news_events' = IF disk_events.exists /\ disk_events.readable
                               THEN LastOf(disk_events.data, MAX_EVENTS_TO_STORE) ELSE <<>>
             /\ sent_headlines_sent' = IF disk_sent.exists /\ disk_sent.readable
                                       THEN disk_sent.items ELSE {}
             /\ last_wake_up_time' = IF disk_state.exists /\ disk_state.readable
                                     THEN disk_state.last_wake_up_time ELSE None]_vars

\* start-up has just completed beside a torn events.json, no state.json and
\* a complete sent_headlines.json: the Sent Ledger is loaded, the store is
\* empty and the last-wake-up instant unset
C26_Witness ==
    /\ pc = "tick"
    /\ now = StartUpTime
    /\ disk_events.exists /\ ~disk_events.readable
    /\ ~disk_state.exists
    /\ disk_sent.exists /\ disk_sent.readable
    /\ sent_headlines_sent = {clean_text(TitleBeta)}
    /\ news_events = <<>>
    /\ last_wake_up_time = None

\* C27: a save is atomic for a reader: whatever happens in a step, a crash
\* inside a save included, each of the three files afterwards holds its
\* previous content or a complete new content that can be read back.
C27_AtomicSaves ==
    [][/\ (disk_events' = disk_events \/ disk_events'.readable)
       /\ (disk_sent' = disk_sent \/ disk_sent'.readable)
       /\ (disk_state' = disk_state \/ disk_state'.readable)]_vars


(***************************************************************************)
(* SpecCalls: one call of send_telegram_message, or one call of            *)
(* analyze_news_with_chatgpt, followed attempt by attempt for every        *)
(* sequence of answers the service can give to its posts; the rest of the  *)
(* program stands as in Init.  FairCalls: the loop of a call, once         *)
(* entered, goes on running (nothing in it waits but time.sleep and a      *)
(* post with a timeout).                                                   *)
(***************************************************************************)
InitCalls ==
    /\ now = StartTime
    /\ pc = "tick"
    /\ current_mode = get_bot_mode(BootTime)
    /\ sleep_events_collected = 0
    /\ last_wake_up_time = None
    /\ news_events = <<>>
    /\ processed_articles = {}
    /\ sent_headlines_sent = {}
    /\ valid_tickers_cache = [t \in {} |-> FALSE]
    /\ current_time = StartTime - SCAN_INTERVAL_SECONDS
    /\ last_report_time = BootTime
    /\ last_wakeup_triggered_date = None
    /\ new_events = <<>>
    /\ scanned = 0
    /\ disk_events = NoEventsFile
    /\ disk_state = NoStateFile
    /\ disk_sent = NoSentFile
    /\ outbox = NoMessage
    /\ delivered = {}
    /\ ingested = EmptyBag
    /\ failed = {}
    /\ owed = {}
    /\ last_scan = NoScan
    /\ env = Surroundings(Entries, FetchDelays, StartTime, Horizon, 0)
    /\ wake_log = {}
    /\ overnight = {}
    /\ periodic_sent = {}
    /\ \/ /\ \E ok \in BOOLEAN, answers \in [1..TELEGRAM_RETRIES -> TelegramAnswers] :
                tg_call = [NoTelegramCall EXCEPT !.state = "called", !.config_ok = ok,
                                                 !.answers = answers]
          /\ gpt_call = NoClassifierCall
       \/ /\ tg_call = NoTelegramCall
          /\ \E replies \in [1..CHATGPT_RETRIES -> ClassifierReplies] :
                gpt_call = [NoClassifierCall EXCEPT !.state = "called", !.replies = replies]
    /\ alert_bot = NoAlertBot

NextCalls ==
    \/ TelegramAttempt
    \/ ClassifierAttempt

SpecCalls == InitCalls /\ [][NextCalls]_vars

FairCalls == SpecCalls /\ WF_vars(NextCalls)

SendWithinBounds ==
    LET posts == tg_call.posts
    IN  /\ Len(posts) <= TELEGRAM_RETRIES
        /\ tg_call.state \in {"idle", "called", "returned"}
        /\ \A i \in 1..(Len(posts) - 1) : ~Accepted(posts[i])
        /\ (tg_call.state = "returned" /\ tg_call.result)
               => (posts # <<>> /\ Accepted(posts[Len(posts)]))

\* C28: every call of send_telegram_message returns, success or failure,
\* after at most three posts; it returns success only if a post of its own
\* was accepted by the transport, and no post follows an accepted one.
C28_SendTerminates ==
    /\ []SendWithinBounds
    /\ (tg_call.state = "called") ~> (tg_call.state = "returned")

\* a send that succeeded with its third post, the first two having failed
C28_Witness ==
    /\ tg_call.state = "returned"
    /\ tg_call.result
    /\ Len(tg_call.posts) = TELEGRAM_RETRIES

\* C29: after a post answered with a misconfiguration status (400, 401,
\* 403) send_telegram_message makes no further post for that message.
C29_MisconfigurationEnds ==
    \A i \in 1..(Len(tg_call.posts) - 1) : tg_call.posts[i] \notin {400, 401, 403}

\* C30: whatever the classifier service answers, analyze_news_with_chatgpt
\* returns a result after at most three API attempts and never raises, and
\* without a usable answer the result is the neutral fallback with one
\* placeholder reason.
C30_ClassifierReturns ==
    /\ gpt_call.state # "raised"
    /\ Len(gpt_call.posts) <= CHATGPT_RETRIES
    /\ (gpt_call.state = "returned" /\ gpt_call.response.shape # "object")
           => gpt_call.result \in {Fallback("Unable to analyze"), Fallback("Analysis failed")}

\* C31: every result analyze_news_with_chatgpt returns, and so every
\* NewsEvent built from it, has at least one importance reason.
C31_ReasonsNonEmpty ==
    gpt_call.state = "returned" => gpt_call.result.importance_reasons # << >>

\* C32: within one process run a symbol that validate_ticker was called
\* for is in the cache with the answer that call gave, and an entry of the
\* cache is never changed or dropped: the lookup is made at most once per
\* symbol, and a symbol once found invalid stays invalid.
C32_LookedUpOnce ==
    [][SameRun =>
         /\ \A t \in DOMAIN valid_tickers_cache :
               /\ t \in DOMAIN valid_tickers_cache'
               /\ valid_tickers_cache'[t] = valid_tickers_cache[t]
         /\ last_scan'.result \in {"invalid_ticker", "stored"} =>
               LET ticker == extract_ticker_from_headline(last_scan'.key[1])
               IN  /\ ticker \in DOMAIN valid_tickers_cache'
                   /\ valid_tickers_cache'[ticker] = (last_scan'.result = "stored")]_vars

\* a second article on a symbol validated earlier in this run is stored
C32_Witness ==
    /\ pc = "scan"
    /\ last_scan.result = "stored"
    /\ \E k \in BagToSet(ingested) :
          /\ k # last_scan.key
          /\ extract_ticker_from_headline(k[1]) = extract_ticker_from_headline(last_scan.key[1])

(***************************************************************************)
(* SpecTicker: two driver cycles of a Tuesday morning in which the feeds   *)
(* serve one entry, its headline any sequence of up to three tokens among  *)
(* marked, bracketed and bare symbols, blacklisted or not, and a word.     *)
(***************************************************************************)
Headlines ==
    LET tokens == { Tok("dollar", "ACME"), Tok("dollar", "USD"), Tok("paren", "BETA"),
                    Tok("paren", "FDA"), Tok("bare", "GAMA"), Tok("bare", "CEO"),
                    Tok("word", "beats") }
    IN  UNION { [1..n -> tokens] : n \in 1..3 }

InitTicker ==
    \E headline \in Headlines :
        Scene(Day(1) + Clock(10, 0), "NORMAL", <<>>, 0, None, {},
              Day(1) + Clock(9, 56), None,
              Surroundings({Entry(headline, "l1")}, FetchDelays, Day(1) + Clock(10, 0),
                           Day(1) + Clock(10, 0) + 2 * SCAN_INTERVAL_SECONDS, 0))

SpecTicker == InitTicker /\ [][NextSched]_vars

\* the positions of a headline that hold a candidate symbol not blacklisted
Candidates(headline) ==
    { i \in 1..Len(headline) :
        headline[i].k \in {"dollar", "paren", "bare"} /\ headline[i].s \notin blacklist }

Priority(token) == CASE token.k = "dollar" -> 1 [] token.k = "paren" -> 2 [] OTHER -> 3

\* position i comes no later than position j in priority order
Before(headline, i, j) ==
    \/ Priority(headline[i]) < Priority(headline[j])
    \/ Priority(headline[i]) = Priority(headline[j]) /\ i <= j

\* C33: for the headline of every entry a scan pass has looked at,
\* extract_ticker_from_headline gives the symbol of the first candidate in
\* priority order ($SYMBOL, then (SYMBOL), then bare tokens, whatever their
\* places in the text) that is not blacklisted, and no symbol exactly when
\* there is no such candidate; the scan pass acts on that symbol.
C33_FirstAcceptedCandidate ==
    last_scan.result \in {"no_ticker", "invalid_ticker", "stored"} =>
        LET headline == last_scan.key[1]
            ticker == extract_ticker_from_headline(headline)
        IN  /\ ticker \notin blacklist
            /\ (ticker = NoTicker) = (Candidates(headline) = {})
            /\ (last_scan.result = "no_ticker") = (ticker = NoTicker)
            /\ ticker # NoTicker =>
                  \E i \in Candidates(headline) :
                      /\ headline[i].s = ticker
                      /\ \A j \in Candidates(headline) : Before(headline, i, j)
            /\ last_scan.result = "stored" => new_events[Len(new_events)].ticker = ticker

\* "GAMA (FDA) $ACME": the marked symbol at the end is taken, not the bare
\* one at the front nor the blacklisted one in brackets
C33_Witness ==
    /\ last_scan.result = "stored"
    /\ last_scan.key[1] = << Tok("bare", "GAMA"), Tok("paren", "FDA"), Tok("dollar", "ACME") >>
    /\ new_events[Len(new_events)].ticker = "ACME"

Transient(status) == status \in {TimedOut, 429} \/ status >= 500

\* the attempts of a call that has ended, and the waits between them
RetriedWithBackoff(call, retries) ==
    call.state \notin {"idle", "called"} =>
        \A i \in 1..Len(call.posts) :
            /\ (Transient(call.posts[i]) /\ i < retries) =>
                  (Len(call.posts) > i /\ call.slept[i] = 2 ^ (i - 1))
            /\ call.slept[i] > 0 => call.slept[i] = 2 ^ (i - 1)
            /\ i = Len(call.posts) => call.slept[i] = 0

\* C35: a post of send_telegram_message or of call_chatgpt_api that met a
\* timeout, a 429 or a 5xx is followed by another post unless it was the
\* third; the wait before the next post is 1 s, 2 s, 4 s ... by attempt
\* number, and no wait follows the last post.
C35_ExponentialBackoff ==
    /\ RetriedWithBackoff(tg_call, TELEGRAM_RETRIES)
    /\ RetriedWithBackoff(gpt_call, CHATGPT_RETRIES)

(***************************************************************************)
(* SpecFaulty: the cycles of SpecSched in which, besides, a feed may raise *)
(* while it is read and a report may raise while it builds its message.    *)
(***************************************************************************)
SpecFaulty == InitSched /\ [][NextSched \/ FeedFails \/ TickException]_vars

\* the driver cycle is left from a report without the report having returned
CutShort ==
    \/ pc = "report" /\ pc' # "brief"
    \/ pc = "brief" /\ pc' # "sleep"

\* C34: an exception of a component never ends the driver loop: the cycle
\* it cut short is followed by another one after the inter-cycle delay, with
\* the store and the ledger as they were; a feed that fails leaves the scan
\* pass going, with the events the pass has accepted so far.
C34_LoopResumes ==
    /\ [](pc # "done")
    /\ [](pc = "tick" => ENABLED TickStart)
    /\ [][CutShort => /\ pc' = "tick"
                      /\ now' = now + SCAN_INTERVAL_SECONDS
                      /\ news_events' = news_events
                      /\ processed_articles' = processed_articles]_vars
    /\ [][last_scan'.result = "feed_failed" => pc' = "scan" /\ new_events' = new_events]_vars

\* C36: a driver cycle attempts the periodic report exactly when the mode
\* is NORMAL and at least REPORT_INTERVAL_SECONDS lie between its start and
\* the start of the cycle of the previous attempt (or start-up): whatever
\* comes of an attempt, the next interval is counted from its cycle's start.
C36_ReportInterval ==
    [][pc = "report" =>
         IF current_mode = "NORMAL"
            /\ current_time - last_report_time >= REPORT_INTERVAL_SECONDS
         THEN last_report_time' = current_time
         ELSE outbox'.kind # "trading" /\ last_report_time' = last_report_time]_vars

\* C37: when a driver cycle has ended, however it ended, every article of
\* the Dedup Ledger has its event in the Event Store.  (No event of the run
\* is old enough for the retention sweep within the window explored.)
C37_LedgerHasEvents ==
    pc = "tick" =>
        \A article_key \in processed_articles :
            \E e \in Range(news_events) : KeyOfEvent(e) = article_key

\* C38: when a driver cycle has completed, events.json holds exactly the
\* Event Store.
C38_SnapshotIsStore ==
    pc = "sleep" => disk_events.data = news_events


(***************************************************************************)
(* src/main.py: the keyword alert bot.  A feed entry is its title, its     *)
(* link, the importance score of its title (main.py:276-307) and whether   *)
(* it passes the filters of scan_feed_list other than the duplicate one    *)
(* (a title, its length, the blacklist; main.py:415-460).                  *)
(***************************************************************************)
MAX_ARTICLES_PER_FEED == 50
MAX_ALERTS_PER_BATCH == 10
TOP_ALERTS == 5

MaxBatches == 2

\* what FEEDS_MARKET (three feeds) and FEEDS_BIOTECH (two feeds) may serve
\* when a batch reads them: runs of numbered articles, article 3 with the
\* highest score, every fourth one failing a filter
FeedLists ==
    LET article(i) == [title |-> i, link |-> i, score |-> IF i = 3 THEN 5 ELSE i % 3,
                       passes |-> i % 4 # 0]
        feed(lo, hi) == [k \in 1..(hi - lo + 1) |-> article(lo + k - 1)]
    IN  [market |-> { << feed(1, 0), feed(1, 0), feed(1, 0) >>,
                      << feed(1, 2), feed(1, 0), feed(5, 6) >>,
                      << feed(1, 3), feed(3, 5), feed(1, 0) >>,
                      << feed(1, 15), feed(1, 0), feed(1, 0) >>,
                      << feed(1, 15), feed(17, 19), feed(21, 22) >> },
         biotech |-> { << feed(1, 0), feed(1, 0) >>,
                       << feed(30, 31), feed(1, 0) >>,
                       << feed(3, 3), feed(33, 33) >> }]

\* main.py:400-473 from entry e of feed f on.  The item carries, besides
\* what the code puts in it, the feed it came from.
RECURSIVE ScanFrom(_, _, _, _, _, _, _)
ScanFrom(feed_list, f, e, items, processed_count, feed_items_processed, sent) ==
    IF f > Len(feed_list) THEN items
    ELSE IF e > Len(feed_list[f]) \/ feed_items_processed >= MAX_ARTICLES_PER_FEED
    THEN ScanFrom(feed_list, f + 1, 1, items, processed_count, 0, sent)
    ELSE LET entry == feed_list[f][e]
             key == << entry.title, entry.link >>
             item == [score |-> entry.score, title |-> entry.title, link |-> entry.link,
                      feed |-> f]
         IN  IF key \in sent \/ ~entry.passes
             THEN ScanFrom(feed_list, f, e + 1, items, processed_count,
                           feed_items_processed, sent)
             ELSE IF processed_count + 1 >= MAX_ALERTS_PER_BATCH
             \* break: out of the loop over the entries of this feed
             THEN ScanFrom(feed_list, f + 1, 1, Append(items, item), processed_count + 1,
                           0, sent)
             ELSE ScanFrom(feed_list, f, e + 1, Append(items, item), processed_count + 1,
                           feed_items_processed + 1, sent)

\* main.py:400-473, ENABLE_DUPLICATE_FILTERING = True (main.py:102)
scan_feed_list(feed_list, sent) == ScanFrom(feed_list, 1, 1, <<>>, 0, 0, sent)

\* items.sort(key=lambda x: x[0], reverse=True): stable
SortByScore(items) ==
    LET place(i) == Cardinality({ j \in 1..Len(items) :
                        \/ items[j].score > items[i].score
                        \/ items[j].score = items[i].score /\ j < i }) + 1
    IN  [k \in 1..Len(items) |-> items[CHOOSE i \in 1..Len(items) : place(i) = k]]

\* main.py:475-493: one batch
send_top_alerts ==
    /\ alert_bot.state = "running"
    /\ alert_bot.batches < MaxBatches
    /\ \E market \in FeedLists.market, biotech \in FeedLists.biotech :
          LET market_items == scan_feed_list(market, alert_bot.sent_global)
              biotech_items == scan_feed_list(biotech, alert_bot.sent_global)
              top_market == Take(SortByScore(market_items), TOP_ALERTS)
              top_biotech == Take(SortByScore(biotech_items), TOP_ALERTS)
              alert(items, chat) ==
                  [i \in 1..Len(items) |-> << items[i].title, items[i].link, chat >>]
              keys(items) == { << items[i].title, items[i].link >> : i \in 1..Len(items) }
          IN  alert_bot' = [alert_bot EXCEPT
                               !.batches = @ + 1,
                               !.market_items = market_items,
                               !.biotech_items = biotech_items,
                               !.sent = @ \o alert(top_market, "TG_MARKET")
                                          \o alert(top_biotech, "TG_BIOTECH"),
                               !.sent_global = @ \cup keys(top_market) \cup keys(top_biotech)]
    /\ UNCHANGED <<now, pc, current_mode, sleep_events_collected, last_wake_up_time,
                   news_events, processed_articles, sent_headlines_sent, valid_tickers_cache,
                   current_time, last_report_time, last_wakeup_triggered_date,
                   new_events, scanned, disk_events, disk_state, disk_sent,
                   outbox, delivered, ingested, failed, owed, last_scan, env, wake_log,
                   overnight, periodic_sent, tg_call, gpt_call>>

\* src/main.py has started (main.py:26: sent_global = set()); the program
\* of src/bot.py stands as in Init
InitAlerts ==
    /\ now = StartTime
    /\ pc = "tick"
    /\ current_mode = get_bot_mode(BootTime)
    /\ sleep_events_collected = 0
    /\ last_wake_up_time = None
    /\ news_events = <<>>
    /\ processed_articles = {}
    /\ sent_headlines_sent = {}
    /\ valid_tickers_cache = [t \in {} |-> FALSE]
    /\ current_time = StartTime - SCAN_INTERVAL_SECONDS
    /\ last_report_time = BootTime
    /\ last_wakeup_triggered_date = None
    /\ new_events = <<>>
    /\ scanned = 0
    /\ disk_events = NoEventsFile
    /\ disk_state = NoStateFile
    /\ disk_sent = NoSentFile
    /\ outbox = NoMessage
    /\ delivered = {}
    /\ ingested = EmptyBag
    /\ failed = {}
    /\ owed = {}
    /\ last_scan = NoScan
    /\ env = Surroundings(Entries, FetchDelays, StartTime, Horizon, 0)
    /\ wake_log = {}
    /\ overnight = {}
    /\ periodic_sent = {}
    /\ tg_call = NoTelegramCall
    /\ gpt_call = NoClassifierCall
    /\ alert_bot = [NoAlertBot EXCEPT !.state = "running"]

SpecAlerts == InitAlerts /\ [][send_top_alerts]_vars

\* C39: one call of scan_feed_list returns at most MAX_ALERTS_PER_BATCH
\* items, and at most MAX_ARTICLES_PER_FEED of them from any one feed.
C39_BatchLimit ==
    \A items \in {alert_bot.market_items, alert_bot.biotech_items} :
        /\ Len(items) <= MAX_ALERTS_PER_BATCH
        /\ \A f \in 1..3 :
              Cardinality({ i \in 1..Len(items) : items[i].feed = f }) <= MAX_ARTICLES_PER_FEED

\* C40: send_top_alerts never hands the same (title, link) to send_telegram
\* twice in one process run.
C40_NoAlertTwice ==
    \A i, j \in 1..Len(alert_bot.sent) :
        (alert_bot.sent[i][1] = alert_bot.sent[j][1] /\ alert_bot.sent[i][2] = alert_bot.sent[j][2])
            => i = j

====
